---- MODULE Spec2Model ----
(***************************************************************************)
(* Preview-asset regeneration and event health monitoring of               *)
(* ville-cloud-functions.                                                  *)
(*                                                                         *)
(* The model follows functions/index.js (the Firestore onWrite trigger     *)
(* processPreviewAssets and its helper ensureFfmpeg, the onCreate triggers *)
(* monitorEventHealth and sendEventHealthEmail, the HTTP test endpoints,   *)
(* the HTTP endpoint eventMeta with shared/buildRichMeta.js),              *)
(* the force-regen sweep of functions/regenerateAllEventPreviews.js and    *)
(* the single-event test script test-single-preview.js.  One action stands *)
(* for one suspension point (await) of a handler; everything the handler   *)
(* does synchronously between two awaits belongs to the same action.       *)
(*                                                                         *)
(* The preview pipeline and the health monitor share no state: the monitor *)
(* reads only the snapshot of the created document and writes only the     *)
(* collection eventHealthAlerts, which the pipeline never touches.  Each   *)
(* of the two is therefore explored with the other one at rest.            *)
(***************************************************************************)
EXTENDS Integers, Sequences, FiniteSets, TLC

VARIABLES
    docs,      \* events/{eventId} documents of the record store
    events,    \* change events (before, after) not yet delivered to onWrite
    runs,      \* invocations of processPreviewAssets that passed the gate
    blobs,     \* objects of the storage bucket under events/{eventId}/
    ffmpeg,    \* state of the file LOCAL_FFMPEG in the instance's tmpdir
    clock,     \* number of document writes so far (server time)
    checks,    \* invocations of monitorEventHealth
    calls,     \* invocations of testEventUrlWithAlert and testEmailAlert
    alerts,    \* documents of the collection eventHealthAlerts
    alertEvents, \* onCreate events of alerts not yet delivered
    mails,     \* invocations of sendEventHealthEmail
    mailer,    \* the transport that functions.config() selects
    probe,     \* a request to the HTTP endpoint testEventUrl
    cli,       \* the process of the sweep command
    coll,      \* the collection events as the sweep command queries it
    meta       \* a request to the HTTP endpoint eventMeta

pipelineVars == <<docs, events, runs, blobs, ffmpeg, clock>>

healthVars == <<checks, calls, alerts, alertEvents, mails, mailer, probe>>

sweepVars == <<cli, coll>>

metaVars == <<meta>>

vars == <<docs, events, runs, blobs, ffmpeg, clock,
          checks, calls, alerts, alertEvents, mails, mailer, probe,
          cli, coll, meta>>

----------------------------------------------------------------------------
(* Bounds of the model *)

\* external writes (create, video change, unrelated write, delete, sweep,
\* test clear) are issued only while clock < MaxClock
MaxClock == 2

\* every run follows from a change event, so the number of runs never reaches
\* this cap
MaxRuns == MaxClock + 1

Ids == {"E1"}

----------------------------------------------------------------------------
(* Values *)

\* event_video: field missing, empty string, or a storage URL
NoVideo == "absent"
VideoVals == {NoVideo, "", "v1", "v2"}

\* event_preview_vid / event_preview_image: field missing or a download URL
\* https://firebasestorage.googleapis.com/v0/b/<bucket>/o/<dest>?alt=media&token=<token>
NoUrl == [dest |-> "none", token |-> 0]

\* JavaScript truthiness of a string field (undefined, null and '' are falsy)
truthy(v) == v \notin {NoVideo, ""}

\* truthiness of a preview field: a published URL is a non-empty string
hasUrl(u) == u # NoUrl

NoDoc ==
    [exists |-> FALSE, video |-> NoVideo, vid |-> NoUrl, img |-> NoUrl,
     regenAt |-> 0, marker |-> 0, testRegen |-> 0, other |-> 0]

\* a record regenerated before this instance started
Regenerated ==
    [NoDoc EXCEPT !.exists = TRUE, !.video = "v1",
                  !.vid = [dest |-> "events/E0/output.mp4", token |-> 0],
                  !.img = [dest |-> "events/E0/fallback.jpg", token |-> 0]]

vidDestShared(id) == "events/output.mp4"

\* lines 199-200: `events/${eventId}/output.mp4`, `events/${eventId}/fallback.jpg`
vidDest(id) == "events/" \o id \o "/output.mp4"
imgDest(id) == "events/" \o id \o "/fallback.jpg"

previewUrl(dest, token) == [dest |-> dest, token |-> token]

NoBlob == [token |-> 0, src |-> NoVideo]

\* the object stored at a path of the bucket, NoBlob when there is none
blobAt(p) == IF p \in DOMAIN blobs THEN blobs[p] ELSE NoBlob

\* bucket.upload with a destination: creates the object or replaces the one
\* stored at that path, metadata (download token) included
upload(p, b) == [q \in DOMAIN blobs \cup {p} |-> IF q = p THEN b ELSE blobs[q]]

\* the bucket holds no preview yet
NoBlobs == [p \in {} |-> NoBlob]

----------------------------------------------------------------------------
(* The gate of the onWrite handler (index.js lines 130-137) *)

\* line 131: if (!after?.event_video) return null
eligible(after) == after.exists /\ truthy(after.video)

needsPreviewAnyMissing(before, after) ==
    \/ before.video # after.video
    \/ ~(hasUrl(after.vid) \/ hasUrl(after.img))

needsPreviewAlways(before, after) == TRUE

needsPreviewOnlyMissing(before, after) ==
    ~(hasUrl(after.vid) /\ hasUrl(after.img))

\* lines 133-136; an absent before snapshot is {} and reads as NoDoc
needsPreview(before, after) ==
    \/ before.video # after.video
    \/ ~(hasUrl(after.vid) /\ hasUrl(after.img))

required(before, after) == eligible(after) /\ needsPreview(before, after)

----------------------------------------------------------------------------
(* Document writes: every write is delivered to the onWrite trigger as a   *)
(* (before, after) pair, in the order of the writes                        *)

write(id, newDoc, origin) ==
    /\ docs' = [docs EXCEPT ![id] = newDoc]
    /\ events' = Append(events,
          [id |-> id, before |-> docs[id], after |-> newDoc, origin |-> origin])
    /\ clock' = clock + 1

\* a client creates the event, with or without a video
Create(id, v) ==
    /\ clock < MaxClock
    /\ ~docs[id].exists
    /\ write(id, [NoDoc EXCEPT !.exists = TRUE, !.video = v], "create")
    /\ UNCHANGED <<runs, blobs, ffmpeg>>
    /\ UNCHANGED healthVars
    /\ UNCHANGED sweepVars
    /\ UNCHANGED metaVars

\* a client replaces (or removes) the source video
SetVideo(id, v) ==
    /\ clock < MaxClock
    /\ docs[id].exists
    /\ docs[id].video # v
    /\ write(id, [docs[id] EXCEPT !.video = v], "video")
    /\ UNCHANGED <<runs, blobs, ffmpeg>>
    /\ UNCHANGED healthVars
    /\ UNCHANGED sweepVars
    /\ UNCHANGED metaVars

\* a write to a field the pipeline does not read (e.g. shareGifUrl)
Touch(id) ==
    /\ clock < MaxClock
    /\ docs[id].exists
    /\ write(id, [docs[id] EXCEPT !.other = @ + 1], "other")
    /\ UNCHANGED <<runs, blobs, ffmpeg>>
    /\ UNCHANGED healthVars
    /\ UNCHANGED sweepVars
    /\ UNCHANGED metaVars

Delete(id) ==
    /\ clock < MaxClock
    /\ docs[id].exists
    /\ write(id, NoDoc, "delete")
    /\ UNCHANGED <<runs, blobs, ffmpeg>>
    /\ UNCHANGED healthVars
    /\ UNCHANGED sweepVars
    /\ UNCHANGED metaVars

\* regenerateAllEventPreviews.js lines 294-312: the update the sweep commits
\* for one matching record (where event_video != null, skip if falsy)
sweepUpdate(d, now) ==
    [d EXCEPT !.vid = NoUrl, !.img = NoUrl, !.regenAt = now, !.marker = @ + 1]

SweepUpdate(id) ==
    /\ clock < MaxClock
    /\ docs[id].exists
    /\ truthy(docs[id].video)
    /\ write(id, sweepUpdate(docs[id], clock + 1), "sweep")
    /\ UNCHANGED <<runs, blobs, ffmpeg>>
    /\ UNCHANGED healthVars
    /\ UNCHANGED sweepVars
    /\ UNCHANGED metaVars

\* test-single-preview.js lines 50-54
testClear(d, now) ==
    [d EXCEPT !.vid = NoUrl, !.img = NoUrl, !.testRegen = @ + 1]

TestClear(id) ==
    /\ clock < MaxClock
    /\ docs[id].exists
    /\ write(id, testClear(docs[id], clock + 1), "test")
    /\ UNCHANGED <<runs, blobs, ffmpeg>>
    /\ UNCHANGED healthVars
    /\ UNCHANGED sweepVars
    /\ UNCHANGED metaVars

----------------------------------------------------------------------------
(* processPreviewAssets: one pipeline run per invocation that passes the   *)
(* gate.  pc names the await the run is suspended at.                      *)

newRunAlwaysFetch(e) ==
    [id |-> e.id, video |-> e.after.video, marker |-> e.after.marker,
     origin |-> e.origin,
     pc |-> "fetch", outcome |-> "running", workDir |-> "none",
     dl |-> {}, exit |-> "none", argv |-> <<>>, vidToken |-> 0, imgToken |-> 0]

newRun(e) ==
    [id |-> e.id, video |-> e.after.video, marker |-> e.after.marker,
     origin |-> e.origin,
     pc |-> IF ffmpeg = "absent" THEN "fetch" ELSE "mkdir", outcome |-> "running", workDir |-> "none",
     dl |-> {}, exit |-> "none", argv |-> <<>>, vidToken |-> 0, imgToken |-> 0]

\* a run executes its next stage only while no await has thrown
active(run) == run.outcome = "running"

at(r, pc) == r \in DOMAIN runs /\ active(runs[r]) /\ runs[r].pc = pc

setRun(r, run) == runs' = [runs EXCEPT ![r] = run]

\* an await throws: the async handler has no try/catch, so the promise it
\* returned rejects and nothing after the await is executed
\* the invocation is over: its locals are gone, what stays is how it ended
\* and what it left in tmpdir
ended(run, outcome) ==
    [run EXCEPT !.outcome = outcome, !.pc = "done", !.dl = {},
                !.exit = IF @ = "nonzero" THEN @ ELSE "none", !.argv = <<>>,
                !.vidToken = 0, !.imgToken = 0]

reject(run) == ended(run, "rejected")

\* lines 128-142 and 109: the gate, then ensureFfmpeg's fs.access, which
\* succeeds as soon as the path exists
Deliver ==
    /\ events # <<>>
    /\ LET e == Head(events) IN
         IF required(e.before, e.after)
         THEN /\ Len(runs) < MaxRuns
              /\ runs' = Append(runs, newRun(e))
         ELSE UNCHANGED runs
    /\ events' = Tail(events)
    /\ UNCHANGED <<docs, blobs, ffmpeg, clock>>
    /\ UNCHANGED healthVars
    /\ UNCHANGED sweepVars
    /\ UNCHANGED metaVars

\* line 111: download of bin/ffmpeg to LOCAL_FFMPEG; a failed download leaves
\* a truncated file behind
FetchBin(r) ==
    /\ at(r, "fetch")
    /\ \/ /\ ffmpeg' = IF ffmpeg = "exec" THEN "exec" ELSE "complete"
          /\ setRun(r, [runs[r] EXCEPT !.pc = "chmod"])
       \/ /\ ffmpeg' = "partial"
          /\ setRun(r, reject(runs[r]))
    /\ UNCHANGED <<docs, events, blobs, clock>>
    /\ UNCHANGED healthVars
    /\ UNCHANGED sweepVars
    /\ UNCHANGED metaVars

\* line 112: fs.chmod(LOCAL_FFMPEG, 0o755)
Chmod(r) ==
    /\ at(r, "chmod")
    /\ ffmpeg' = IF ffmpeg = "complete" THEN "exec" ELSE ffmpeg
    /\ setRun(r, [runs[r] EXCEPT !.pc = "mkdir"])
    /\ UNCHANGED <<docs, events, blobs, clock>>
    /\ UNCHANGED healthVars
    /\ UNCHANGED sweepVars
    /\ UNCHANGED metaVars

\* lines 144-145
Mkdir(r) ==
    /\ at(r, "mkdir")
    /\ setRun(r, [runs[r] EXCEPT !.pc = "download", !.workDir = "present"])
    /\ UNCHANGED <<docs, events, blobs, ffmpeg, clock>>
    /\ UNCHANGED healthVars
    /\ UNCHANGED sweepVars
    /\ UNCHANGED metaVars

Files == {"src", "logo"}

allSettledAny(dl) == dl # {}

\* line 153: await Promise.all([...]) resolves when both downloads have
allSettled(dl) == dl = Files

\* lines 153-156: Promise.all of the two downloads
Download(r, f) ==
    /\ at(r, "download")
    /\ f \notin runs[r].dl
    /\ \/ setRun(r, [runs[r] EXCEPT !.dl = @ \cup {f},
                        !.pc = IF allSettled(runs[r].dl \cup {f}) THEN "clip" ELSE "download"])
       \/ setRun(r, reject(runs[r]))
    /\ UNCHANGED <<docs, events, blobs, ffmpeg, clock>>
    /\ UNCHANGED healthVars
    /\ UNCHANGED sweepVars
    /\ UNCHANGED metaVars

\* how a child process ends: exit code 0, exit code > 0, or killed by a
\* signal (the 'exit' event then carries code null)
Exits == {"zero", "nonzero", "signal"}

exitNeverRejects(code) == FALSE

\* lines 182 and 193: code ? bad(...) : ok()
exitRejects(code) == code = "nonzero"

\* spawn of a file that is not a complete executable emits 'error', for which
\* no listener is registered: the promise never settles
spawnFails == ffmpeg # "exec"

\* lines 144-151: the files of the run in its working directory
workDir(run) == "prev-" \o run.id
mp4In(run) == workDir(run) \o "/src.mp4"
logo(run) == workDir(run) \o "/logo.png"
mp4Out(run) == workDir(run) \o "/output.mp4"
jpgOut(run) == workDir(run) \o "/fallback.jpg"

clipArgsSeekAfterInput(run) ==
    <<"-i", mp4In(run), "-ss", "0", "-t", "2.5", "-i", logo(run),
      "-t", "2.5", "-r", "10", "-filter_complex", "filter",
      "-c:v", "libx264", "-preset", "veryfast", "-crf", "28",
      "-pix_fmt", "yuv420p", "-an", "-y", mp4Out(run)>>

\* lines 169-180: the argument array of the first spawn; "filter" is the
\* string of lines 159-162
clipArgs(run) ==
    <<"-ss", "0", "-t", "2.5", "-i", mp4In(run), "-i", logo(run),
      "-t", "2.5", "-r", "10", "-filter_complex", "filter",
      "-c:v", "libx264", "-preset", "veryfast", "-crf", "28",
      "-pix_fmt", "yuv420p", "-an", "-y", mp4Out(run)>>

\* lines 190-192: the argument array of the second spawn
thumbArgs(run) ==
    <<"-i", mp4Out(run), "-frames:v", "1", "-q:v", "4", "-y", jpgOut(run)>>

\* lines 168-183
Clip(r) ==
    /\ at(r, "clip")
    /\ IF spawnFails
       THEN setRun(r, ended(runs[r], "crashed"))
       ELSE \E code \in Exits :
              setRun(r, IF exitRejects(code)
                        THEN reject([runs[r] EXCEPT !.exit = code])
                        ELSE [runs[r] EXCEPT !.exit = code, !.pc = "thumb",
                                 !.argv = clipArgs(runs[r])])
    /\ UNCHANGED <<docs, events, blobs, ffmpeg, clock>>
    /\ UNCHANGED healthVars
    /\ UNCHANGED sweepVars
    /\ UNCHANGED metaVars

uuidv4Reused(r, k) == k

\* lines 197-198: uuidv4() never repeats; the r-th run draws the tokens
\* 2r-1 and 2r
uuidv4(r, k) == 2 * (r - 1) + k

\* lines 189-200: the thumbnail step, then the two tokens
Thumb(r) ==
    /\ at(r, "thumb")
    /\ IF spawnFails
       THEN setRun(r, ended(runs[r], "crashed"))
       ELSE \E code \in Exits :
              setRun(r, IF exitRejects(code)
                        THEN reject([runs[r] EXCEPT !.exit = code])
                        ELSE [runs[r] EXCEPT !.exit = code, !.pc = "upvid",
                                 !.argv = thumbArgs(runs[r]),
                                 !.vidToken = uuidv4(r, 1), !.imgToken = uuidv4(r, 2)])
    /\ UNCHANGED <<docs, events, blobs, ffmpeg, clock>>
    /\ UNCHANGED healthVars
    /\ UNCHANGED sweepVars
    /\ UNCHANGED metaVars

UploadVidPerRun(r) ==
    /\ at(r, "upvid")
    /\ \/ /\ blobs' = upload("events/" \o runs[r].id \o "/" \o runs[r].origin \o ".mp4",
                          [token |-> runs[r].vidToken, src |-> runs[r].video])
          /\ setRun(r, [runs[r] EXCEPT !.pc = "upimg", !.exit = "none"])
       \/ /\ setRun(r, reject(runs[r]))
          /\ UNCHANGED blobs
    /\ UNCHANGED <<docs, events, ffmpeg, clock>>
    /\ UNCHANGED healthVars
    /\ UNCHANGED sweepVars
    /\ UNCHANGED metaVars

\* lines 202-209
UploadVid(r) ==
    /\ at(r, "upvid")
    /\ \/ /\ blobs' = upload(vidDest(runs[r].id),
                          [token |-> runs[r].vidToken, src |-> runs[r].video])
          /\ setRun(r, [runs[r] EXCEPT !.pc = "upimg", !.exit = "none"])
       \/ /\ setRun(r, reject(runs[r]))
          /\ UNCHANGED blobs
    /\ UNCHANGED <<docs, events, ffmpeg, clock>>
    /\ UNCHANGED healthVars
    /\ UNCHANGED sweepVars
    /\ UNCHANGED metaVars

\* lines 210-217
UploadImg(r) ==
    /\ at(r, "upimg")
    /\ \/ /\ blobs' = upload(imgDest(runs[r].id),
                          [token |-> runs[r].imgToken, src |-> runs[r].video])
          /\ setRun(r, [runs[r] EXCEPT !.pc = "update"])
       \/ /\ setRun(r, reject(runs[r]))
          /\ UNCHANGED blobs
    /\ UNCHANGED <<docs, events, ffmpeg, clock>>
    /\ UNCHANGED healthVars
    /\ UNCHANGED sweepVars
    /\ UNCHANGED metaVars

publishOnlyVid(d, run) ==
    [d EXCEPT !.vid = previewUrl(vidDest(run.id), run.vidToken)]

publishWithTimestamp(d, run) ==
    [d EXCEPT !.vid = previewUrl(vidDest(run.id), run.vidToken),
              !.img = previewUrl(imgDest(run.id), run.imgToken),
              !.regenAt = clock + 1]

\* lines 219-229: the fields of the one update() call
publish(d, run) ==
    [d EXCEPT !.vid = previewUrl(vidDest(run.id), run.vidToken),
              !.img = previewUrl(imgDest(run.id), run.imgToken)]

\* line 226: update() is one atomic call; when it throws nothing is written
failedUpdate(d, run) == d

\* lines 226-232: update() fails on a deleted document (and may fail for
\* any other reason); when it resolves, fs.rm is issued and the handler returns
Update(r) ==
    /\ at(r, "update")
    /\ \/ /\ docs[runs[r].id].exists
          /\ write(runs[r].id, publish(docs[runs[r].id], runs[r]), "publish")
          /\ setRun(r, ended([runs[r] EXCEPT !.workDir = "removed"], "published"))
       \/ /\ docs' = [docs EXCEPT ![runs[r].id] = failedUpdate(@, runs[r])]
          /\ setRun(r, reject(runs[r]))
          /\ UNCHANGED <<events, clock>>
    /\ UNCHANGED <<blobs, ffmpeg>>
    /\ UNCHANGED healthVars
    /\ UNCHANGED sweepVars
    /\ UNCHANGED metaVars

\* line 122: timeoutSeconds; the platform ends the invocation wherever it is
Timeout(r) ==
    /\ r \in DOMAIN runs
    /\ active(runs[r])
    /\ setRun(r, ended(runs[r], "timeout"))
    /\ UNCHANGED <<docs, events, blobs, ffmpeg, clock>>
    /\ UNCHANGED healthVars
    /\ UNCHANGED sweepVars
    /\ UNCHANGED metaVars

----------------------------------------------------------------------------
(* Event health monitor: what one attempt fetches and how it is judged     *)
(* (testEventUrl, index.js lines 657-724)                                  *)

\* line 608
maxAttempts == 3

\* line 609: milliseconds
retryDelay == 45000

\* line 678: html.length < 5000
minLength == 5000

\* the <title> of a page: no <title> tag, only '<title></title>', only a
\* title with text, or a title with text and an empty one elsewhere
Titles == {"none", "empty", "text", "both"}

Lengths == {minLength - 1, minLength, minLength + 1}

\* fetch() or response.text() throws
Thrown ==
    [thrown |-> TRUE, ok |-> FALSE, len |-> 0, loader |-> FALSE,
     bootstrapJs |-> FALSE, buildConfig |-> FALSE, title |-> "none"]

\* a response: response.ok, html.length, and which of '_flutter.loader.load',
\* 'flutter_bootstrap.js' and '_flutter.buildConfig' the body contains
Pages ==
    [thrown : {FALSE}, ok : BOOLEAN, len : Lengths, loader : BOOLEAN,
     bootstrapJs : BOOLEAN, buildConfig : BOOLEAN, title : Titles]

Responses == {Thrown} \cup Pages

\* an error page and a fully rendered application shell of 20 KB
Http500 == [Thrown EXCEPT !.thrown = FALSE]

AppShell ==
    [thrown |-> FALSE, ok |-> TRUE, len |-> 4 * minLength, loader |-> TRUE,
     bootstrapJs |-> TRUE, buildConfig |-> TRUE, title |-> "text"]

\* the responses the retry loop and the alerting endpoint are run against
Samples == {Thrown, Http500, AppShell}

failure(error) == [success |-> FALSE, error |-> error]

NoResult == failure("none")

tooSmallOrEqual(html) == html.len <= minLength

\* line 678
tooSmall(html) == html.len < minLength

\* line 686
hasFlutterBootstrap(html) == html.loader \/ html.bootstrapJs

\* line 687
hasFlutterBuildConfig(html) == html.buildConfig

\* line 688: html.includes('<title>') && !html.includes('<title></title>');
\* '<title></title>' itself contains '<title>'
hasEventTitle(html) ==
    /\ html.title \in {"empty", "text", "both"}
    /\ html.title \notin {"empty", "both"}

\* lines 657-724
testEventUrl(resp) ==
    IF resp.thrown THEN failure("fetch")
    ELSE IF ~resp.ok THEN failure("http")
    ELSE IF tooSmall(resp) THEN failure("small")
    ELSE IF ~hasFlutterBootstrap(resp) THEN failure("bootstrap")
    ELSE IF ~hasFlutterBuildConfig(resp) THEN failure("buildConfig")
    ELSE IF ~hasEventTitle(resp) THEN failure("title")
    ELSE [success |-> TRUE, error |-> "none"]

\* lines 771-787: the HTTP endpoint testEventUrl; body is the set of fields
\* of the JSON it responds with
NoProbe ==
    [pc |-> "idle", hasId |-> FALSE, resp |-> Thrown, status |-> 0,
     result |-> NoResult, fetches |-> 0, waited |-> 0, body |-> {}]

TestEventUrlEndpointAlerting ==
    /\ probe.pc = "request"
    /\ probe' = IF ~probe.hasId
                THEN [probe EXCEPT !.pc = "responded", !.status = 400,
                                   !.body = {"error"}]
                ELSE [probe EXCEPT !.pc = "responded", !.status = 200,
                                   !.result = testEventUrl(probe.resp),
                                   !.fetches = @ + 1,
                                   !.body = {"eventId", "eventUrl", "result",
                                             "timestamp"}]
    /\ alerts' = IF probe.hasId /\ ~testEventUrl(probe.resp).success
                 THEN Append(alerts, probe.resp)
                 ELSE alerts
    /\ UNCHANGED <<checks, calls, alertEvents, mails, mailer>>
    /\ UNCHANGED pipelineVars
    /\ UNCHANGED sweepVars
    /\ UNCHANGED metaVars

\* lines 771-787: 400 when eventId is missing, else one call of
\* testEventUrl and the response
TestEventUrlEndpoint ==
    /\ probe.pc = "request"
    /\ probe' = IF ~probe.hasId
                THEN [probe EXCEPT !.pc = "responded", !.status = 400,
                                   !.body = {"error"}]
                ELSE [probe EXCEPT !.pc = "responded", !.status = 200,
                                   !.result = testEventUrl(probe.resp),
                                   !.fetches = @ + 1,
                                   !.body = {"eventId", "eventUrl", "result",
                                             "timestamp"}]
    /\ UNCHANGED <<checks, calls, alerts, alertEvents, mails, mailer>>
    /\ UNCHANGED pipelineVars
    /\ UNCHANGED sweepVars
    /\ UNCHANGED metaVars

----------------------------------------------------------------------------
(* monitorEventHealth (lines 553-602) with testEventUrlWithRetries (lines  *)
(* 607-652): one check per created document of the collection events       *)

\* the most invocations of monitorEventHealth, testEventUrlWithAlert and
\* testEmailAlert together
MaxCalls == 2

newCheckUnguarded(hasId) ==
    [eventID |-> hasId, pc |-> "wait",
     attempt |-> 1, attempts |-> <<>>, waited |-> 0, fetches |-> 0,
     adds |-> 0, result |-> "none", outcome |-> "running"]

\* lines 557-567: a document without the field eventID is only logged
newCheck(hasId) ==
    [eventID |-> hasId, pc |-> IF hasId THEN "wait" ELSE "done",
     attempt |-> 1, attempts |-> <<>>, waited |-> 0, fetches |-> 0,
     adds |-> 0, result |-> "none",
     outcome |-> IF hasId THEN "running" ELSE "returned"]

busy == Len(checks) + Len(calls)

OnCreate(hasId) ==
    /\ busy < MaxCalls
    /\ checks' = Append(checks, newCheck(hasId))
    /\ UNCHANGED <<calls, alerts, alertEvents, mails, mailer, probe>>
    /\ UNCHANGED pipelineVars
    /\ UNCHANGED sweepVars
    /\ UNCHANGED metaVars

checking(c, pc) ==
    c \in DOMAIN checks /\ checks[c].outcome = "running" /\ checks[c].pc = pc

delayOnlyBetween(attempt) == IF attempt = 1 THEN 0 ELSE retryDelay

\* lines 615-617: the wait at the top of the loop body
delayBefore(attempt) == retryDelay

Wait(c) ==
    /\ checking(c, "wait")
    /\ checks' = [checks EXCEPT ![c].pc = "fetch",
                                ![c].waited = @ + delayBefore(checks[c].attempt)]
    /\ UNCHANGED <<calls, alerts, alertEvents, mails, mailer, probe>>
    /\ UNCHANGED pipelineVars
    /\ UNCHANGED sweepVars
    /\ UNCHANGED metaVars

passedNever(result) == FALSE

\* line 627: if (result.success)
passed(result) == result.success

lastAttemptSecond(attempt) == attempt = maxAttempts - 1

\* line 639: if (attempt === maxAttempts)
lastAttempt(attempt) == attempt = maxAttempts

loggedUnnumbered(attempt, result) ==
    [attempt |-> 1, success |-> result.success, error |-> result.error]

\* lines 620-625: attempts.push({attempt, timestamp, success, error})
logged(attempt, result) ==
    [attempt |-> attempt, success |-> result.success, error |-> result.error]

\* lines 619-649, then lines 575-596 when the loop returns: a passing
\* attempt ends the check, the last failing attempt leads to the alert
Fetch(c) ==
    /\ checking(c, "fetch")
    /\ \E resp \in Samples :
         LET result == testEventUrl(resp)
             me == [checks[c] EXCEPT
                      !.fetches = @ + 1,
                      !.attempts = Append(@, logged(checks[c].attempt, result))]
         IN checks' = [checks EXCEPT ![c] =
              IF passed(result)
              THEN [me EXCEPT !.result = "success", !.pc = "done",
                              !.outcome = "returned"]
              ELSE IF lastAttempt(me.attempt)
              THEN [me EXCEPT !.result = "failure", !.pc = "store"]
              ELSE [me EXCEPT !.attempt = @ + 1, !.pc = "wait"]]
    /\ UNCHANGED <<calls, alerts, alertEvents, mails, mailer, probe>>
    /\ UNCHANGED pipelineVars
    /\ UNCHANGED sweepVars
    /\ UNCHANGED metaVars

MonitorFields ==
    {"eventId", "docId", "eventUrl", "error", "attempts", "eventData",
     "timestamp", "resolved"}

\* lines 580-592
monitorAlert(c) ==
    [source |-> "monitor", by |-> c, fields |-> MonitorFields,
     error |-> checks[c].attempts[Len(checks[c].attempts)].error,
     attempts |-> checks[c].attempts, resolved |-> FALSE]

\* collection('eventHealthAlerts').add(doc): the document is created and its
\* onCreate event is queued
add(doc) ==
    /\ alerts' = Append(alerts, doc)
    /\ alertEvents' = Append(alertEvents, Len(alerts) + 1)

monitorThrows(check) == [check EXCEPT !.pc = "done", !.outcome = "rejected"]

\* lines 599-601: catch (error) { console.error(...) }
monitorCatch(check) == [check EXCEPT !.pc = "done", !.outcome = "returned"]

\* lines 580-594: the add either creates the alert or throws
Store(c) ==
    /\ checking(c, "store")
    /\ \/ /\ add(monitorAlert(c))
          /\ checks' = [checks EXCEPT ![c].adds = @ + 1, ![c].pc = "done",
                                      ![c].outcome = "returned"]
       \/ /\ checks' = [checks EXCEPT ![c] =
                          monitorCatch([checks[c] EXCEPT !.adds = @ + 1])]
          /\ UNCHANGED <<alerts, alertEvents>>
    /\ UNCHANGED <<calls, mails, mailer, probe>>
    /\ UNCHANGED pipelineVars
    /\ UNCHANGED sweepVars
    /\ UNCHANGED metaVars

----------------------------------------------------------------------------
(* The HTTP endpoints that create alerts: testEventUrlWithAlert (lines     *)
(* 793-848) and testEmailAlert (lines 920-952)                             *)

newCall(endpoint, pc, status) ==
    [endpoint |-> endpoint, pc |-> pc, result |-> NoResult, adds |-> 0,
     status |-> status, alertCreated |-> FALSE,
     responses |-> IF pc = "done" THEN 1 ELSE 0]

calling(k, endpoint, pc) ==
    /\ k \in DOMAIN calls
    /\ calls[k].endpoint = endpoint
    /\ calls[k].pc = pc

\* lines 794-798: a request without eventId is answered 400 at once
RequestWithAlert(hasId) ==
    /\ busy < MaxCalls
    /\ calls' = Append(calls,
          IF hasId THEN newCall("testEventUrlWithAlert", "fetch", 0)
                   ELSE newCall("testEventUrlWithAlert", "done", 400))
    /\ UNCHANGED <<checks, alerts, alertEvents, mails, mailer, probe>>
    /\ UNCHANGED pipelineVars
    /\ UNCHANGED sweepVars
    /\ UNCHANGED metaVars

\* res.json(...) or res.status(...).json(...): the response of the call
respond(call, status, alertCreated) ==
    [call EXCEPT !.pc = "done", !.status = status,
                 !.alertCreated = alertCreated, !.responses = @ + 1]

\* lines 800-804 and 838-846: one attempt, no wait
ManualFetch(k) ==
    /\ calling(k, "testEventUrlWithAlert", "fetch")
    /\ \E resp \in Samples :
         LET result == testEventUrl(resp) IN
           calls' = [calls EXCEPT ![k] =
              IF result.success
              THEN respond([@ EXCEPT !.result = result], 200, FALSE)
              ELSE [@ EXCEPT !.result = result, !.pc = "store"]]
    /\ UNCHANGED <<checks, alerts, alertEvents, mails, mailer, probe>>
    /\ UNCHANGED pipelineVars
    /\ UNCHANGED sweepVars
    /\ UNCHANGED metaVars

ManualFields ==
    {"eventId", "eventUrl", "error", "eventData", "timestamp", "resolved",
     "source"}

\* lines 806-817
manualAlert(k) ==
    [source |-> "manual-test", by |-> k, fields |-> ManualFields,
     error |-> calls[k].result.error, attempts |-> <<>>, resolved |-> FALSE]

manualStoreFailedCreated(call) == respond(call, 200, TRUE)

\* lines 828-836: the add threw; alertCreated: false
manualStoreFailed(call) == respond(call, 200, FALSE)

\* lines 805-837
ManualStore(k) ==
    /\ calling(k, "testEventUrlWithAlert", "store")
    /\ \/ /\ add(manualAlert(k))
          /\ calls' = [calls EXCEPT ![k] =
                         respond([@ EXCEPT !.adds = @ + 1], 200, TRUE)]
       \/ /\ calls' = [calls EXCEPT ![k] =
                         manualStoreFailed([@ EXCEPT !.adds = @ + 1])]
          /\ UNCHANGED <<alerts, alertEvents>>
    /\ UNCHANGED <<checks, mails, mailer, probe>>
    /\ UNCHANGED pipelineVars
    /\ UNCHANGED sweepVars
    /\ UNCHANGED metaVars

\* lines 920-922
RequestTestEmail ==
    /\ busy < MaxCalls
    /\ calls' = Append(calls, newCall("testEmailAlert", "store", 0))
    /\ UNCHANGED <<checks, alerts, alertEvents, mails, mailer, probe>>
    /\ UNCHANGED pipelineVars
    /\ UNCHANGED sweepVars
    /\ UNCHANGED metaVars

TestFields ==
    {"eventId", "eventUrl", "error", "eventData", "timestamp", "resolved"}

\* lines 923-933
testAlert(k) ==
    [source |-> "test-email", by |-> k, fields |-> TestFields,
     error |-> "test", attempts |-> <<>>, resolved |-> FALSE]

\* lines 936-951
TestEmailStore(k) ==
    /\ calling(k, "testEmailAlert", "store")
    /\ \/ /\ add(testAlert(k))
          /\ calls' = [calls EXCEPT ![k] =
                         respond([@ EXCEPT !.adds = @ + 1], 200, TRUE)]
       \/ /\ calls' = [calls EXCEPT ![k] =
                         respond([@ EXCEPT !.adds = @ + 1], 500, FALSE)]
          /\ UNCHANGED <<alerts, alertEvents>>
    /\ UNCHANGED <<checks, mails, mailer, probe>>
    /\ UNCHANGED pipelineVars
    /\ UNCHANGED sweepVars
    /\ UNCHANGED metaVars

----------------------------------------------------------------------------
(* sendEventHealthEmail (lines 853-914) with sendEmailDirect (lines 29-95) *)

\* lines 37-72: Gmail app password, SendGrid API key, or neither
Mailers == {"gmail", "sendgrid", "none"}

DeliverAlertDropped ==
    /\ alertEvents # <<>>
    /\ alertEvents' = Tail(alertEvents)
    /\ UNCHANGED <<checks, calls, alerts, mails, mailer, probe>>
    /\ UNCHANGED pipelineVars
    /\ UNCHANGED sweepVars
    /\ UNCHANGED metaVars

\* lines 857-860: the onCreate event of an alert starts one invocation
DeliverAlert ==
    /\ alertEvents # <<>>
    /\ mails' = Append(mails,
          [alert |-> Head(alertEvents), pc |-> "send", sends |-> 0,
           sendMail |-> FALSE, result |-> "none", outcome |-> "running"])
    /\ alertEvents' = Tail(alertEvents)
    /\ UNCHANGED <<checks, calls, alerts, mailer, probe>>
    /\ UNCHANGED pipelineVars
    /\ UNCHANGED sweepVars
    /\ UNCHANGED metaVars

\* how sendEmailDirect can end: with credentials transporter.sendMail is
\* called and resolves or throws; without, the fallback calls
\* nodemailer.createTransporter, which nodemailer does not export, and the
\* TypeError is caught before sendMail is reached
sendResults(cfg) == IF cfg = "none" THEN {"failed"} ELSE {"sent", "failed"}

dispatchedOrThrown(mail, res) ==
    [mail EXCEPT !.result = res, !.pc = "done",
                 !.outcome = IF res = "failed" THEN "rejected" ELSE "returned"]

\* lines 91-94 and 908-913: sendEmailDirect catches and returns
\* {success: false}; the handler ignores the value and returns
dispatched(mail, res) ==
    [mail EXCEPT !.result = res, !.pc = "done", !.outcome = "returned"]

\* line 907: await sendEmailDirect(...)
Send(m) ==
    /\ m \in DOMAIN mails
    /\ mails[m].pc = "send"
    /\ \E res \in sendResults(mailer) :
         mails' = [mails EXCEPT ![m] =
            dispatched([@ EXCEPT !.sends = @ + 1,
                                 !.sendMail = (mailer # "none")], res)]
    /\ UNCHANGED <<checks, calls, alerts, alertEvents, mailer, probe>>
    /\ UNCHANGED pipelineVars
    /\ UNCHANGED sweepVars
    /\ UNCHANGED metaVars

----------------------------------------------------------------------------
(* The sweep command regenerateAllEventPreviews.js, in its later revision  *)
(* (lines 193-411): argument parsing, query, confirmation, batches         *)

\* line 281
batchSize == 100

\* line 226: query.limit(10)
testLimit == 10

\* line 258: snapshot.size > 50
confirmAbove == 50

\* the argument that follows --days: no --days at all, --days as the last
\* argument, or a word
DaysArgs == {"absent", "novalue", "abc", "0", "-5", "7", "5abc"}

\* process.argv: test or --test, --days with what follows, --help or -h
Args == [test : BOOLEAN, days : DaysArgs, help : BOOLEAN]

\* parseInt of a word: the leading integer, NaN when there is none
parseInt(word) ==
    CASE word = "7"    -> [nan |-> FALSE, n |-> 7]
      [] word = "5abc" -> [nan |-> FALSE, n |-> 5]
      [] word = "0"    -> [nan |-> FALSE, n |-> 0]
      [] word = "-5"   -> [nan |-> FALSE, n |-> -5]
      [] OTHER         -> [nan |-> TRUE, n |-> 0]

\* line 378: daysIndex !== -1 && args[daysIndex + 1]
daysGiven(word) == word \notin {"absent", "novalue"}

\* what the operator types at 'Continue? (yes/no): '
Answers == {"yes", "YES", "no", ""}

\* line 273: answer.toLowerCase()
toLowerCase(answer) == IF answer = "YES" THEN "yes" ELSE answer

\* the process before it is started; daysBack 0 stands for null, exitCode -1
\* for a process that has not exited
NoCli ==
    [pc |-> "idle", args |-> [test |-> FALSE, days |-> "absent", help |-> FALSE],
     testMode |-> FALSE, daysBack |-> 0, recent |-> 0, snapshot |-> <<>>,
     i |-> 0, answer |-> "none", commits |-> <<>>, failedAt |-> 0,
     queried |-> FALSE, pauses |-> 0, ending |-> "none", exitCode |-> -1]

\* process.exit(code); the finally of line 366 exits with the default code 0
exit(c, code, ending) ==
    [c EXCEPT !.pc = "exited", !.exitCode = code, !.ending = ending]

\* lines 371-411
ParseArgs ==
    /\ cli.pc = "start"
    /\ LET a == cli.args
           d == parseInt(a.days)
       IN cli' = IF daysGiven(a.days) /\ (d.nan \/ d.n <= 0)
                 THEN exit(cli, 1, "invalid")
                 ELSE IF a.help
                 THEN exit(cli, 0, "help")
                 ELSE [cli EXCEPT !.pc = "query", !.testMode = a.test,
                                  !.daysBack = IF daysGiven(a.days) THEN d.n ELSE 0]
    /\ UNCHANGED coll
    /\ UNCHANGED pipelineVars
    /\ UNCHANGED healthVars
    /\ UNCHANGED metaVars

min(a, b) == IF a <= b THEN a ELSE b

\* lines 207-227: the records with event_video != null, of the last daysBack
\* days when --days is given (the first cli.recent records of the
\* collection), at most 10 in test mode, in the order of the query
matching(c) ==
    LET hit(j) == /\ coll[j].video # NoVideo
                  /\ c.daysBack = 0 \/ j <= c.recent
        hits == SelectSeq([j \in 1 .. Len(coll) |-> j], hit)
    IN IF c.testMode THEN SubSeq(hits, 1, min(Len(hits), testLimit)) ELSE hits

needsConfirmNever(testMode, size) == FALSE

\* line 258
needsConfirm(testMode, size) == ~testMode /\ size > confirmAbove

\* lines 231-258: the query throws, finds nothing, or gives the snapshot
Query ==
    /\ cli.pc = "query"
    /\ \/ cli' = exit([cli EXCEPT !.queried = TRUE], 0, "error")
       \/ LET snapshot == matching(cli)
              c == [cli EXCEPT !.queried = TRUE, !.snapshot = snapshot]
          IN cli' = IF snapshot = <<>>
                    THEN exit(c, 0, "empty")
                    ELSE IF needsConfirm(c.testMode, Len(snapshot))
                    THEN [c EXCEPT !.pc = "confirm"]
                    ELSE [c EXCEPT !.pc = "batch"]
    /\ UNCHANGED coll
    /\ UNCHANGED pipelineVars
    /\ UNCHANGED healthVars
    /\ UNCHANGED metaVars

\* lines 263-276
Confirm ==
    /\ cli.pc = "confirm"
    /\ \E answer \in Answers :
         cli' = IF toLowerCase(answer) # "yes"
                THEN exit([cli EXCEPT !.answer = answer], 0, "cancelled")
                ELSE [cli EXCEPT !.answer = answer, !.pc = "batch"]
    /\ UNCHANGED coll
    /\ UNCHANGED pipelineVars
    /\ UNCHANGED healthVars
    /\ UNCHANGED metaVars

batchDocsOverlapping(c) ==
    SubSeq(c.snapshot, c.i + 1, min(c.i + batchSize + 1, Len(c.snapshot)))

\* line 288: snapshot.docs.slice(i, i + batchSize)
batchDocs(c) == SubSeq(c.snapshot, c.i + 1, min(c.i + batchSize, Len(c.snapshot)))

\* lines 294-315: the records of the slice that get a batch.update
updatesOf(c) ==
    LET hasVideo(j) == truthy(coll[j].video) IN SelectSeq(batchDocs(c), hasVideo)

range(s) == {s[k] : k \in DOMAIN s}

\* a committed batch: every update of the batch is applied
committed(c, updates) ==
    [j \in DOMAIN coll |->
        IF j \in range(updates)
        THEN sweepUpdate(coll[j], Len(c.commits) + 1)
        ELSE coll[j]]

failedCommitPartial(c, updates) ==
    [j \in DOMAIN coll |->
        IF j = updates[1]
        THEN sweepUpdate(coll[j], Len(c.commits) + 1)
        ELSE coll[j]]

\* a batch whose commit throws: a WriteBatch is applied as a whole or not at
\* all
failedCommit(c, updates) == coll

\* lines 325-331 and 334-367: after the last slice the summary and the exit,
\* otherwise the pause
advance(c) ==
    IF c.i + batchSize < Len(c.snapshot)
    THEN [c EXCEPT !.pc = "pause"]
    ELSE exit([c EXCEPT !.i = @ + batchSize], 0, "complete")

commitFailedGoesOn(c) ==
    advance([c EXCEPT !.failedAt = (c.i \div batchSize) + 1])

\* lines 363-367: batch.commit() throws out of the loop into the catch, which
\* logs, and the finally exits
commitFailed(c) ==
    exit([c EXCEPT !.failedAt = (c.i \div batchSize) + 1], 0, "error")

\* lines 286-326: one slice; the batch is committed when it has an update
Commit ==
    /\ cli.pc = "batch"
    /\ LET updates == updatesOf(cli) IN
         IF updates = <<>>
         THEN /\ cli' = advance(cli)
              /\ UNCHANGED coll
         ELSE \/ /\ coll' = committed(cli, updates)
                 /\ cli' = advance([cli EXCEPT !.commits = Append(@, updates)])
              \/ /\ coll' = failedCommit(cli, updates)
                 /\ cli' = commitFailed(cli)
    /\ UNCHANGED pipelineVars
    /\ UNCHANGED healthVars
    /\ UNCHANGED metaVars

\* lines 329-331: 500 ms between two slices
Pause ==
    /\ cli.pc = "pause"
    /\ cli' = [cli EXCEPT !.pc = "batch", !.i = @ + batchSize, !.pauses = @ + 1]
    /\ UNCHANGED coll
    /\ UNCHANGED pipelineVars
    /\ UNCHANGED healthVars
    /\ UNCHANGED metaVars

\* the sweep command is not running
SweepIdle == cli = NoCli /\ coll = <<>>

----------------------------------------------------------------------------
(* eventMeta (index.js lines 243-344) with buildRichMeta                   *)
(* (shared/buildRichMeta.js): one request for /event/<eventKey>            *)

\* index.js line 272: const maxAttempts = 3
lookupAttempts == 3

\* index.js line 289: setTimeout(resolve, 500)
lookupDelay == 500

\* the stored record as far as the head block depends on it: whether it has
\* event_preview_vid and event_preview_image, and whether a field has a
\* value the builder cannot read (a null among d.interests)
MetaDocs == [vid : BOOLEAN, img : BOOLEAN, unreadable : BOOLEAN]

\* what one query of line 273 gives: no document, the document, or an error
QueryResults == {"empty", "found", "throws"}

\* what the fetch of index.html gives
UpstreamResults == {"ok", "throws"}

NoHead == [thrown |-> FALSE, image |-> "none", video |-> FALSE]

\* buildRichMeta.js lines 28-29 and 90-100: the preview image or the default
\* image, the video block only with a preview clip; line 24: i.name of a
\* null element throws
buildRichMeta(d) ==
    IF d.unreadable
    THEN [NoHead EXCEPT !.thrown = TRUE]
    ELSE [thrown |-> FALSE,
          image |-> IF d.img THEN "preview" ELSE "default",
          video |-> d.vid]

\* the request before it arrives; status 0 stands for no response yet
NoMeta ==
    [pc |-> "idle", hasKey |-> FALSE, bot |-> FALSE,
     doc |-> [vid |-> FALSE, img |-> FALSE, unreadable |-> FALSE],
     attempts |-> 0, results |-> <<>>, waits |-> 0, waited |-> 0,
     status |-> 0, body |-> "none", head |-> NoHead, responses |-> 0]

\* res.status(200).send(...) or res.redirect(302, '/')
send(m, status, body, head) ==
    [m EXCEPT !.pc = "done", !.status = status, !.body = body, !.head = head,
              !.responses = @ + 1]

\* index.js lines 340-343: catch (err) { return res.redirect(302, '/') }
metaCatch(m) == send(m, 302, "redirect", NoHead)

\* index.js lines 250-266: no event key in the path redirects to /
MetaStart ==
    /\ meta.pc = "start"
    /\ meta' = IF ~meta.hasKey
               THEN send(meta, 302, "redirect", NoHead)
               ELSE [meta EXCEPT !.pc = "query"]
    /\ UNCHANGED pipelineVars
    /\ UNCHANGED healthVars
    /\ UNCHANGED sweepVars

\* index.js lines 303-319: the head block, and the response to a crawler
rendered(m) ==
    LET head == buildRichMeta(m.doc) IN
      IF head.thrown THEN metaCatch(m)
      ELSE IF m.bot THEN send(m, 200, "markup", head)
      ELSE [m EXCEPT !.pc = "upstream", !.head = head]

waitAlways(attempts) == TRUE

\* index.js line 287: if (attempts < maxAttempts)
waitBetween(attempts) == attempts < lookupAttempts

\* index.js lines 274-291: one turn of the lookup loop up to its next await
MetaQuery ==
    /\ meta.pc = "query"
    /\ \E result \in QueryResults :
         LET m == [meta EXCEPT !.results = Append(@, result)] IN
           meta' = CASE result = "throws" -> metaCatch(m)
                     [] result = "found"  -> rendered(m)
                     [] OTHER ->
                          LET n == [m EXCEPT !.attempts = @ + 1] IN
                            IF waitBetween(n.attempts)
                            THEN [n EXCEPT !.pc = "wait"]
                            ELSE IF n.attempts < lookupAttempts
                            THEN [n EXCEPT !.pc = "query"]
                            ELSE [n EXCEPT !.pc = "fallback"]
    /\ UNCHANGED pipelineVars
    /\ UNCHANGED healthVars
    /\ UNCHANGED sweepVars

\* index.js line 289: the 500 ms before the next query; the loop condition
\* of line 274 ends the loop after the last attempt
MetaWait ==
    /\ meta.pc = "wait"
    /\ meta' = [meta EXCEPT !.waits = @ + 1, !.waited = @ + lookupDelay,
                            !.pc = IF meta.attempts < lookupAttempts
                                   THEN "query" ELSE "fallback"]
    /\ UNCHANGED pipelineVars
    /\ UNCHANGED healthVars
    /\ UNCHANGED sweepVars

\* index.js lines 293-301: no record found: the application shell is
\* fetched and sent as it is
MetaFallback ==
    /\ meta.pc = "fallback"
    /\ \E up \in UpstreamResults :
         meta' = IF up = "throws" THEN metaCatch(meta)
                 ELSE send(meta, 200, "shell", NoHead)
    /\ UNCHANGED pipelineVars
    /\ UNCHANGED healthVars
    /\ UNCHANGED sweepVars

\* index.js lines 321-339: a browser gets the application shell with the
\* head block inserted
MetaUpstream ==
    /\ meta.pc = "upstream"
    /\ \E up \in UpstreamResults :
         meta' = IF up = "throws" THEN metaCatch(meta)
                 ELSE send(meta, 200, "page", meta.head)
    /\ UNCHANGED pipelineVars
    /\ UNCHANGED healthVars
    /\ UNCHANGED sweepVars

\* no request to eventMeta
MetaIdle == meta = NoMeta

----------------------------------------------------------------------------

\* nothing of the pipeline has happened
PipelineIdle ==
    /\ docs = [id \in Ids |-> NoDoc]
    /\ events = <<>>
    /\ runs = <<>>
    /\ blobs = NoBlobs
    /\ ffmpeg = "absent"
    /\ clock = 0

\* nothing of the health monitor has happened
HealthIdle ==
    /\ checks = <<>>
    /\ calls = <<>>
    /\ alerts = <<>>
    /\ alertEvents = <<>>
    /\ mails = <<>>
    /\ mailer = "gmail"
    /\ probe = NoProbe

InitHealth ==
    /\ PipelineIdle
    /\ checks = <<>>
    /\ calls = <<>>
    /\ alerts = <<>>
    /\ alertEvents = <<>>
    /\ mails = <<>>
    /\ mailer \in Mailers
    /\ probe = NoProbe
    /\ SweepIdle
    /\ MetaIdle

\* documents are created and the endpoints are requested
Arrivals ==
    \/ \E hasId \in BOOLEAN : OnCreate(hasId)
    \/ \E hasId \in BOOLEAN : RequestWithAlert(hasId)
    \/ RequestTestEmail

\* an await of some invocation settles, or an onCreate event is delivered
HealthStep ==
    \/ \E c \in 1 .. MaxCalls : Wait(c)
    \/ \E c \in 1 .. MaxCalls : Fetch(c)
    \/ \E c \in 1 .. MaxCalls : Store(c)
    \/ \E k \in 1 .. MaxCalls : ManualFetch(k)
    \/ \E k \in 1 .. MaxCalls : ManualStore(k)
    \/ \E k \in 1 .. MaxCalls : TestEmailStore(k)
    \/ DeliverAlert
    \/ \E m \in 1 .. MaxCalls : Send(m)

NextHealth == Arrivals \/ HealthStep

SpecHealth == InitHealth /\ [][NextHealth]_vars

\* every await settles and every event is delivered
FairHealth == SpecHealth /\ WF_vars(HealthStep)

\* a request to the endpoint testEventUrl, with the response its fetch gets
InitProbe ==
    /\ PipelineIdle
    /\ checks = <<>>
    /\ calls = <<>>
    /\ alerts = <<>>
    /\ alertEvents = <<>>
    /\ mails = <<>>
    /\ mailer = "gmail"
    /\ probe \in {[NoProbe EXCEPT !.pc = "request", !.hasId = h, !.resp = r] :
                    h \in BOOLEAN, r \in Responses}
    /\ SweepIdle
    /\ MetaIdle

SpecProbe == InitProbe /\ [][TestEventUrlEndpoint]_vars

----------------------------------------------------------------------------
(* The sweep command run on a collection of regenerated records            *)

\* the numbers of records in the collection
Sizes == {0, 3, 12, 50, 51, 100, 101, 250}

\* every record with a video; some records with an empty or no event_video;
\* the second hundred of the records with an empty event_video
Patterns == {"all", "gaps", "hole"}

videoAt(pattern, j) ==
    CASE pattern = "all"  -> "v1"
      [] pattern = "gaps" -> IF j % 7 = 3 THEN ""
                             ELSE IF j % 5 = 0 THEN NoVideo ELSE "v1"
      [] pattern = "hole" -> IF j > batchSize /\ j <= 2 * batchSize
                             THEN "" ELSE "v1"

Collection(n, pattern) ==
    [j \in 1 .. n |-> [Regenerated EXCEPT !.video = videoAt(pattern, j)]]

InitSweep ==
    /\ PipelineIdle
    /\ HealthIdle
    /\ MetaIdle
    /\ coll \in {Collection(n, p) : n \in Sizes, p \in Patterns}
    /\ cli \in {[NoCli EXCEPT !.pc = "start", !.args = a, !.recent = r] :
                  a \in Args, r \in {Len(coll), Len(coll) \div 2}}

NextSweep ==
    \/ ParseArgs
    \/ Query
    \/ Confirm
    \/ Commit
    \/ Pause

SpecSweep == InitSweep /\ [][NextSweep]_vars

----------------------------------------------------------------------------
(* A request to eventMeta: from a crawler or a browser, with or without an *)
(* event key, for a record with or without previews                        *)

InitMeta ==
    /\ PipelineIdle
    /\ HealthIdle
    /\ SweepIdle
    /\ meta \in {[NoMeta EXCEPT !.pc = "start", !.hasKey = k, !.bot = b,
                                !.doc = d] :
                   k \in BOOLEAN, b \in BOOLEAN, d \in MetaDocs}

NextMeta ==
    \/ MetaStart
    \/ MetaQuery
    \/ MetaWait
    \/ MetaFallback
    \/ MetaUpstream

SpecMeta == InitMeta /\ [][NextMeta]_vars

\* a handler that is not waiting for anything goes on
FairMeta == SpecMeta /\ WF_vars(NextMeta)

----------------------------------------------------------------------------

Init ==
    /\ docs \in [Ids -> {NoDoc, Regenerated}]
    /\ events = <<>>
    /\ runs = <<>>
    /\ blobs = NoBlobs
    /\ ffmpeg = "absent"
    /\ clock = 0
    /\ HealthIdle
    /\ SweepIdle
    /\ MetaIdle

External ==
    \E id \in Ids :
        \/ \E v \in VideoVals : Create(id, v)
        \/ \E v \in VideoVals : SetVideo(id, v)
        \/ Touch(id)
        \/ Delete(id)
        \/ SweepUpdate(id)
        \/ TestClear(id)

Step(r) ==
    \/ FetchBin(r)
    \/ Chmod(r)
    \/ Mkdir(r)
    \/ \E f \in Files : Download(r, f)
    \/ Clip(r)
    \/ Thumb(r)
    \/ UploadVid(r)
    \/ UploadImg(r)
    \/ Update(r)

Next ==
    \/ External
    \/ Deliver
    \/ \E r \in 1..MaxRuns : Step(r)
    \/ \E r \in 1..MaxRuns : Timeout(r)

Spec == Init /\ [][Next]_vars

----------------------------------------------------------------------------
(* The gate alone: any pair of snapshots may be delivered to the trigger   *)

Snapshots ==
    {NoDoc} \cup
    { [NoDoc EXCEPT !.exists = TRUE, !.video = v, !.vid = pv, !.img = pi] :
        v \in VideoVals,
        pv \in {NoUrl, Regenerated.vid},
        pi \in {NoUrl, Regenerated.img} }

InitDecide ==
    /\ \E id \in Ids, before \in Snapshots, after \in Snapshots :
          /\ docs = [i \in Ids |-> IF i = id THEN after ELSE NoDoc]
          /\ events = << [id |-> id, before |-> before, after |-> after,
                          origin |-> "other"] >>
    /\ runs = <<>>
    /\ blobs = NoBlobs
    /\ ffmpeg \in {"absent", "exec"}
    /\ clock = 0
    /\ HealthIdle
    /\ SweepIdle
    /\ MetaIdle

SpecDecide == InitDecide /\ [][Deliver]_vars

----------------------------------------------------------------------------
(* A record that one run has already regenerated: the run has published,   *)
(* its change event was delivered, and anything may happen from there      *)

\* the run that regenerated the record, as it stands after line 232
FirstRun ==
    [id |-> "E1", video |-> "v1", marker |-> 0, origin |-> "create",
     pc |-> "done", outcome |-> "published", workDir |-> "removed",
     dl |-> {}, exit |-> "none", argv |-> <<>>, vidToken |-> 0, imgToken |-> 0]

\* what the first run published (lines 219-229)
FirstPublished ==
    [NoDoc EXCEPT !.exists = TRUE, !.video = FirstRun.video,
                  !.vid = previewUrl(vidDest(FirstRun.id), uuidv4(1, 1)),
                  !.img = previewUrl(imgDest(FirstRun.id), uuidv4(1, 2))]

InitRerun ==
    /\ docs = [id \in Ids |-> IF id = FirstRun.id THEN FirstPublished ELSE NoDoc]
    /\ events = <<>>
    /\ runs = <<FirstRun>>
    /\ blobs = [p \in {vidDest(FirstRun.id), imgDest(FirstRun.id)} |->
                  [token |-> IF p = vidDest(FirstRun.id)
                             THEN uuidv4(1, 1) ELSE uuidv4(1, 2),
                   src |-> FirstRun.video]]
    /\ ffmpeg \in {"absent", "exec"}
    /\ clock = 0
    /\ HealthIdle
    /\ SweepIdle
    /\ MetaIdle

SpecRerun == InitRerun /\ [][Next]_vars

----------------------------------------------------------------------------
(* Two records created with different source videos: their two runs        *)
(* interleave in one instance                                              *)

Pair == {"E1", "E2"}

PairVideo(id) == IF id = "E1" THEN "v1" ELSE "v2"

Created(id) == [NoDoc EXCEPT !.exists = TRUE, !.video = PairVideo(id)]

created(id) ==
    [id |-> id, before |-> NoDoc, after |-> Created(id), origin |-> "create"]

InitPair ==
    /\ docs = [id \in Pair |-> Created(id)]
    /\ events \in {<<created("E1"), created("E2")>>,
                   <<created("E2"), created("E1")>>}
    /\ runs = <<>>
    /\ blobs = NoBlobs
    /\ ffmpeg \in {"absent", "exec"}
    /\ clock = 2
    /\ HealthIdle
    /\ SweepIdle
    /\ MetaIdle

NextPair ==
    \/ Deliver
    \/ \E r \in 1..MaxRuns : Step(r)
    \/ \E r \in 1..MaxRuns : Timeout(r)

SpecPair == InitPair /\ [][NextPair]_vars

----------------------------------------------------------------------------
(* Every stage succeeds and every change event is delivered; the clients   *)
(* create records, change source videos and clear previews                 *)

succeeds(r) ==
    /\ runs'[r].outcome \in {"running", "published"}
    /\ runs'[r].exit \in {"none", "zero"}

StepOK(r) == Step(r) /\ succeeds(r)

ExternalOK ==
    \E id \in Ids :
        \/ \E v \in VideoVals : Create(id, v)
        \/ \E v \in VideoVals : SetVideo(id, v)
        \/ SweepUpdate(id)
        \/ TestClear(id)

NextOK ==
    \/ ExternalOK
    \/ Deliver
    \/ \E r \in 1..MaxRuns : StepOK(r)

FairOK ==
    /\ Init
    /\ [][NextOK]_vars
    /\ WF_vars(Deliver \/ \E r \in 1..MaxRuns : StepOK(r))

----------------------------------------------------------------------------
(* Claims *)

delivery == events # <<>> /\ events' = Tail(events) /\ docs' = docs

started == Len(runs') = Len(runs) + 1

\* C1: a delivered (before, after) pair starts regeneration if and only if
\* after exists and has a source video and (the source video differs between
\* before and after, or at least one of the two preview fields is absent in
\* after); in every other case the handler returns without starting a run.
C1_GateIff ==
    [][delivery =>
         LET e == Head(events) IN
           started <=>
             /\ e.after.exists
             /\ e.after.video \notin {NoVideo, ""}
             /\ \/ e.before.video # e.after.video
                \/ e.after.vid = NoUrl
                \/ e.after.img = NoUrl]_vars

\* a run was started for a pair with the same source video in which exactly
\* one preview field is absent
C1_Witness ==
    /\ Len(runs) = 1
    /\ events = <<>>
    /\ \E id \in Ids : docs[id].vid # NoUrl /\ docs[id].img = NoUrl

\* C2: in every reachable state the preview clip URL and the preview image
\* URL of a record are both set or both absent.
C2_Paired ==
    \A id \in Ids : (docs[id].vid = NoUrl) <=> (docs[id].img = NoUrl)

\* a record swept once and published again by a run of this instance
C2_Witness ==
    \E id \in Ids :
        /\ docs[id].marker >= 1
        /\ docs[id].vid.token >= 1
        /\ docs[id].img.token >= 1

\* C3: no step of a pipeline run other than its final, successful publish
\* changes any record; a run that fails or is aborted at any stage has
\* therefore written nothing, and the preview fields keep the values they had
\* when it started.
C3_FailedRunWritesNothing ==
    [][\A r \in DOMAIN runs :
          (runs'[r] # runs[r] /\ runs'[r].outcome # "published") => docs' = docs]_vars

\* a run was rejected and the record still carries its earlier previews
C3_Witness ==
    \E r \in DOMAIN runs :
        /\ runs[r].outcome = "rejected"
        /\ docs[runs[r].id].vid # NoUrl
        /\ docs[runs[r].id].img # NoUrl

publishes(r) ==
    /\ r \in DOMAIN runs
    /\ runs[r].pc = "update"
    /\ runs'[r].outcome = "published"

\* C4 as claimed: the publish step sets, in its one record update, the
\* preview clip URL, the preview image URL and the regeneration timestamp.
C4_PublishStampsTimestamp ==
    [][\A r \in DOMAIN runs :
          publishes(r) =>
            LET id == runs[r].id IN
              /\ docs'[id].vid = previewUrl(vidDest(id), runs[r].vidToken)
              /\ docs'[id].img = previewUrl(imgDest(id), runs[r].imgToken)
              /\ docs'[id].regenAt = clock']_vars

\* C4 as amended: the publish step sets, in its one record update, the
\* preview clip URL and the preview image URL to the URLs of this run and
\* leaves every other field of the record, the regeneration timestamp
\* included, as it was.
C4_PublishSetsBothUrlsOnly ==
    [][\A r \in DOMAIN runs :
          publishes(r) =>
            LET id == runs[r].id IN
              docs'[id] = [docs[id] EXCEPT
                             !.vid = previewUrl(vidDest(id), runs[r].vidToken),
                             !.img = previewUrl(imgDest(id), runs[r].imgToken)]]_vars

\* a run has published onto a record whose timestamp stems from an earlier sweep
C4_Witness ==
    \E r \in DOMAIN runs :
        /\ runs[r].outcome = "published"
        /\ docs[runs[r].id].vid = previewUrl(vidDest(runs[r].id), uuidv4(r, 1))
        /\ docs[runs[r].id].img = previewUrl(imgDest(runs[r].id), uuidv4(r, 2))
        /\ docs[runs[r].id].regenAt >= 1
        /\ docs[runs[r].id].regenAt < clock

\* C5: every run that created its working directory has removed it when it
\* ends, whether it published or one of its stages failed.
C5_WorkDirReleased ==
    \A r \in DOMAIN runs :
        (runs[r].outcome \in {"published", "rejected"} /\ runs[r].workDir # "none")
            => runs[r].workDir = "removed"

stageRank(pc) ==
    CASE pc = "fetch"    -> 1
      [] pc = "chmod"    -> 2
      [] pc = "mkdir"    -> 3
      [] pc = "download" -> 4
      [] pc = "clip"     -> 5
      [] pc = "thumb"    -> 6
      [] pc = "upvid"    -> 7
      [] pc = "upimg"    -> 8
      [] pc = "update"   -> 9
      [] pc = "done"     -> 10

C7_HandlerNeverRejects ==
    \A r \in DOMAIN runs : runs[r].outcome # "rejected"

quiescent == events = <<>> /\ \A r \in DOMAIN runs : ~active(runs[r])

\* C8: the delivery of the change event of a publish starts no run, and once
\* the external writes have stopped the system comes to rest: no change event
\* is pending and no run is in progress.
C8_PublishSettles ==
    /\ [][(delivery /\ Head(events).origin = "publish") => runs' = runs]_vars
    /\ <>[]quiescent

\* the change event of a publish has been delivered and the system is at rest
C8_Witness ==
    /\ quiescent
    /\ \E r \in DOMAIN runs :
          /\ runs[r].outcome = "published"
          /\ docs[runs[r].id].vid = previewUrl(vidDest(runs[r].id), uuidv4(r, 1))

\* C9: with every stage succeeding and every change event delivered, a record
\* that has a source video and lacks a preview eventually has both previews,
\* and a record whose source video was changed eventually has both previews
\* with a clip URL other than the one published before the change.
C9_EventuallyRegenerated ==
    \A id \in Ids :
        /\ (/\ docs[id].exists
            /\ truthy(docs[id].video)
            /\ (docs[id].vid = NoUrl \/ docs[id].img = NoUrl))
             ~> (docs[id].vid # NoUrl /\ docs[id].img # NoUrl)
        /\ \A u \in {Regenerated.vid} \cup
                   {previewUrl(vidDest(id), uuidv4(r, 1)) : r \in 1 .. MaxClock} :
              (\E i \in DOMAIN events :
                  /\ events[i].id = id
                  /\ events[i].origin = "video"
                  /\ truthy(events[i].after.video)
                  /\ events[i].after.vid = u)
                ~> (/\ docs[id].vid \notin {NoUrl, u}
                    /\ docs[id].img # NoUrl)

\* the source video of a regenerated record was changed and a run has
\* published new previews for it
C9_Witness ==
    \E id \in Ids :
        /\ docs[id].video = "v2"
        /\ docs[id].vid.token >= 1
        /\ docs[id].img.token >= 1
        /\ quiescent

\* C10: per sweep update of a record the trigger decides 'regeneration
\* required' once: at most one run is started by the sweep update itself or
\* by a write to an unrelated field that follows it.
C10_OncePerSweep ==
    \A id \in Ids : \A m \in 1 .. MaxClock + 1 :
        Cardinality({r \in DOMAIN runs :
                        /\ runs[r].id = id
                        /\ runs[r].marker = m
                        /\ runs[r].origin \in {"sweep", "other"}}) <= 1

\* C11: when all runs of a record have published and at least two of them
\* did, the token in each published URL of the record is the token of the
\* blob stored at that URL's path.
C11_PublishedUrlsFetchable ==
    \A id \in Ids :
        LET mine == {r \in DOMAIN runs : runs[r].id = id} IN
          (/\ Cardinality(mine) >= 2
           /\ \A r \in mine : runs[r].outcome = "published"
           /\ docs[id].vid.dest = vidDest(id)
           /\ docs[id].img.dest = imgDest(id))
            => /\ blobAt(vidDest(id)).token = docs[id].vid.token
               /\ blobAt(imgDest(id)).token = docs[id].img.token

\* C12: a run that publishes for a record regenerated before from the same
\* source video leaves exactly the record's clip path and image path in the
\* bucket, and the URLs it publishes have the paths of the URLs published
\* the first time and other tokens.
C12_SecondRunOverwrites ==
    [][\A r \in DOMAIN runs :
          (/\ publishes(r)
           /\ r > 1
           /\ runs[r].id = FirstRun.id
           /\ runs[r].video = FirstRun.video)
            => LET id == runs[r].id IN
                 /\ DOMAIN blobs' = {vidDest(id), imgDest(id)}
                 /\ docs'[id].vid.dest = FirstPublished.vid.dest
                 /\ docs'[id].img.dest = FirstPublished.img.dest
                 /\ docs'[id].vid.token # FirstPublished.vid.token
                 /\ docs'[id].img.token # FirstPublished.img.token]_vars

\* the regenerated record was swept and a second run has published for the
\* same source video
C12_Witness ==
    /\ Len(runs) = 2
    /\ runs[1] = FirstRun
    /\ runs[2].outcome = "published"
    /\ runs[2].origin = "sweep"
    /\ runs[2].video = FirstRun.video
    /\ docs[FirstRun.id].vid = previewUrl(vidDest(FirstRun.id), uuidv4(2, 1))
    /\ blobAt(vidDest(FirstRun.id)).token = uuidv4(2, 1)
    /\ blobAt(imgDest(FirstRun.id)).token = uuidv4(2, 2)

\* tokens in use: in URLs of records, on blobs, and held by runs
usedTokens ==
    UNION { {docs[id].vid.token, docs[id].img.token} : id \in Ids }
      \cup { blobs[p].token : p \in DOMAIN blobs }
      \cup UNION { {runs[r].vidToken, runs[r].imgToken} : r \in DOMAIN runs }

\* C13: the two tokens a run generates differ from each other and from every
\* token in use; the run keeps them until it ends; each upload stores the
\* output at the record's path under the run's token for that output; and
\* the URLs the run publishes carry those paths and those tokens.
C13_FreshTokensEmbedded ==
    [][\A r \in DOMAIN runs :
          LET id == runs[r].id IN
            /\ (runs[r].pc = "thumb" /\ runs'[r].pc = "upvid") =>
                  /\ runs'[r].vidToken # runs'[r].imgToken
                  /\ runs'[r].vidToken \notin usedTokens
                  /\ runs'[r].imgToken \notin usedTokens
            /\ (runs[r].pc \in {"upvid", "upimg"} /\ active(runs'[r])) =>
                  /\ runs'[r].vidToken = runs[r].vidToken
                  /\ runs'[r].imgToken = runs[r].imgToken
            /\ (runs[r].pc = "upvid" /\ runs'[r].pc = "upimg") =>
                  blobs' = upload(vidDest(id), [token |-> runs[r].vidToken,
                                                src |-> runs[r].video])
            /\ (runs[r].pc = "upimg" /\ runs'[r].pc = "update") =>
                  blobs' = upload(imgDest(id), [token |-> runs[r].imgToken,
                                                src |-> runs[r].video])
            /\ publishes(r) =>
                  /\ docs'[id].vid = previewUrl(vidDest(id), runs[r].vidToken)
                  /\ docs'[id].img = previewUrl(imgDest(id), runs[r].imgToken)]_vars

\* a second run for a record has uploaded and published under its own tokens
C13_Witness ==
    \E r \in DOMAIN runs :
        /\ r >= 2
        /\ runs[r].outcome = "published"
        /\ docs[runs[r].id].vid = previewUrl(vidDest(runs[r].id), uuidv4(r, 1))
        /\ docs[runs[r].id].img = previewUrl(imgDest(runs[r].id), uuidv4(r, 2))
        /\ blobAt(vidDest(runs[r].id)).token = uuidv4(r, 1)
        /\ blobAt(imgDest(runs[r].id)).token = uuidv4(r, 2)

\* the alerts that the c-th check of the monitor has created
alertsOf(c) ==
    {i \in DOMAIN alerts : alerts[i].source = "monitor" /\ alerts[i].by = c}

allFailed(log) ==
    /\ Len(log) = 3
    /\ \A i \in DOMAIN log : ~log[i].success

somePassed(log) == \E i \in DOMAIN log : log[i].success

\* C14: a check of the health monitor issues the creation of a HealthAlert
\* if and only if all 3 attempts have failed, and issues it once; the alert
\* it creates is its only one and carries an attempt log of length 3 with
\* three failures; a check in which an attempt passed creates no alert.
C14_AlertIffExhausted ==
    \A c \in DOMAIN checks :
        LET log == checks[c].attempts IN
          /\ checks[c].adds <= 1
          /\ Cardinality(alertsOf(c)) <= checks[c].adds
          /\ checks[c].adds = 1 => allFailed(log)
          /\ (checks[c].pc = "done" /\ allFailed(log)) => checks[c].adds = 1
          /\ \A i \in alertsOf(c) :
                /\ allFailed(alerts[i].attempts)
                /\ alerts[i].attempts = log
          /\ somePassed(log) => alertsOf(c) = {}

\* one check failed three times and created its alert; another failed
\* twice, passed on the third attempt and created none
C14_Witness ==
    \E c, d \in DOMAIN checks :
        /\ allFailed(checks[c].attempts)
        /\ Cardinality(alertsOf(c)) = 1
        /\ Len(checks[d].attempts) = 3
        /\ ~checks[d].attempts[2].success
        /\ checks[d].attempts[3].success
        /\ checks[d].pc = "done"
        /\ alertsOf(d) = {}

\* C15: a check fetches at most 3 times and never after an attempt has
\* passed; when its loop has returned, the number of fetches is the index of
\* the first passing attempt and the result is success, or it is 3, no
\* attempt passed and the result is failure; and every check gets there.
C15_BoundedAttempts ==
    /\ [][\A c \in DOMAIN checks :
            checks'[c].fetches # checks[c].fetches =>
              /\ checks'[c].fetches = checks[c].fetches + 1
              /\ checks[c].fetches < 3
              /\ ~somePassed(checks[c].attempts)]_vars
    /\ [](\A c \in DOMAIN checks :
            LET log == checks[c].attempts IN
              /\ checks[c].fetches = Len(log)
              /\ checks[c].fetches <= 3
              /\ checks[c].result = "success" =>
                   /\ log[Len(log)].success
                   /\ \A i \in 1 .. Len(log) - 1 : ~log[i].success
              /\ checks[c].result = "failure" => allFailed(log)
              /\ (checks[c].eventID /\ checks[c].pc \in {"store", "done"}) =>
                   checks[c].result \in {"success", "failure"})
    /\ \A c \in 1 .. MaxCalls :
          (c \in DOMAIN checks /\ checks[c].eventID)
             ~> (c \in DOMAIN checks /\ checks[c].result \in {"success", "failure"})

\* a check whose first attempt failed and whose second passed
C15_Witness ==
    \E c \in DOMAIN checks :
        /\ checks[c].result = "success"
        /\ checks[c].fetches = 2
        /\ ~checks[c].attempts[1].success

\* C16: every fetch of a check comes after exactly one wait of 45 s more
\* than the fetches made so far, and once the loop has returned the total
\* waiting is 45 s times the number of attempts made.
C16_WaitBeforeEveryAttempt ==
    /\ [][\A c \in DOMAIN checks :
            checks'[c].fetches # checks[c].fetches =>
              /\ checks[c].waited = 45000 * (checks[c].fetches + 1)
              /\ checks'[c].waited = checks[c].waited]_vars
    /\ [](\A c \in DOMAIN checks :
            /\ checks[c].pc \in {"store", "done"} =>
                 checks[c].waited = 45000 * checks[c].fetches
            /\ checks[c].pc = "wait" =>
                 checks[c].waited = 45000 * checks[c].fetches)

\* a check that made three attempts has waited three times
C16_Witness ==
    \E c \in DOMAIN checks :
        /\ checks[c].pc = "done"
        /\ checks[c].fetches = 3
        /\ checks[c].waited = 135000

\* the five checks of an attempt in their order: error and whether it fails,
\* with the body length required to exceed the threshold and any title with
\* text accepted
checksAsClaimed(r) ==
    << [error |-> "http",        bad |-> ~r.ok],
       [error |-> "small",       bad |-> ~(r.len > 5000)],
       [error |-> "bootstrap",   bad |-> ~(r.loader \/ r.bootstrapJs)],
       [error |-> "buildConfig", bad |-> ~r.buildConfig],
       [error |-> "title",       bad |-> r.title \notin {"text", "both"}] >>

\* the same with the body length required to be at least the threshold and
\* the title required to be a title tag without any empty title element
checksAsAmended(r) ==
    << [error |-> "http",        bad |-> ~r.ok],
       [error |-> "small",       bad |-> ~(r.len >= 5000)],
       [error |-> "bootstrap",   bad |-> ~(r.loader \/ r.bootstrapJs)],
       [error |-> "buildConfig", bad |-> ~r.buildConfig],
       [error |-> "title",       bad |-> r.title # "text"] >>

\* the result that a list of checks prescribes for a response
prescribed(r, list) ==
    IF r.thrown THEN [success |-> FALSE, error |-> "fetch"]
    ELSE IF \A i \in DOMAIN list : ~list[i].bad
    THEN [success |-> TRUE, error |-> "none"]
    ELSE LET first == CHOOSE i \in DOMAIN list :
                        list[i].bad /\ \A j \in 1 .. i - 1 : ~list[j].bad
         IN [success |-> FALSE, error |-> list[first].error]

answered == probe.pc = "responded" /\ probe.hasId

\* C17 as claimed: an attempt passes if and only if the status is non-error,
\* the body is longer than 5000, it contains a bootstrap marker, the
\* build-config marker and a non-empty title; otherwise it fails with the
\* error of the first failing check, and an exception of the fetch gives a
\* failed attempt.
C17_PassIffAllChecks ==
    answered => probe.result = prescribed(probe.resp, checksAsClaimed(probe.resp))

\* C17 as amended: the same with a body of at least 5000 characters and with
\* a title check that requires the tag <title> and no empty <title></title>
\* anywhere in the body.
C17_PassIffAllChecksAtLeast ==
    answered => probe.result = prescribed(probe.resp, checksAsAmended(probe.resp))

\* a body of exactly 5000 characters with all markers has passed
C17_Witness ==
    /\ answered
    /\ probe.resp.len = 5000
    /\ probe.result.success

\* C18: no invocation of monitorEventHealth ends by rejecting, and every
\* invocation returns.
C18_MonitorReturns ==
    /\ [](\A c \in DOMAIN checks : checks[c].outcome # "rejected")
    /\ \A c \in 1 .. MaxCalls :
          (c \in DOMAIN checks) ~> (c \in DOMAIN checks /\ checks[c].outcome = "returned")

\* all attempts failed, the creation of the alert failed too, and the
\* handler has returned
C18_Witness ==
    \E c \in DOMAIN checks :
        /\ allFailed(checks[c].attempts)
        /\ checks[c].adds = 1
        /\ alertsOf(c) = {}
        /\ checks[c].outcome = "returned"

\* C19: no invocation of sendEventHealthEmail ends by rejecting, every
\* invocation returns whether the send succeeds or fails, and a step of the
\* dispatcher changes neither an alert nor a check nor an endpoint call.
C19_DispatchFailureContained ==
    /\ [](\A m \in DOMAIN mails : mails[m].outcome # "rejected")
    /\ [][mails' # mails =>
            /\ alerts' = alerts
            /\ checks' = checks
            /\ calls' = calls]_vars
    /\ \A m \in 1 .. MaxCalls :
          (m \in DOMAIN mails) ~> (m \in DOMAIN mails /\ mails[m].outcome = "returned")

\* the send for the alert of an exhausted check failed and the handler has
\* returned; the check and the alert are as they were
C19_Witness ==
    \E m \in DOMAIN mails :
        /\ mails[m].result = "failed"
        /\ mails[m].sendMail
        /\ mails[m].outcome = "returned"
        /\ alerts[mails[m].alert].source = "monitor"
        /\ alerts[mails[m].alert].resolved = FALSE
        /\ checks[alerts[mails[m].alert].by].result = "failure"
        /\ checks[alerts[mails[m].alert].by].outcome = "returned"

\* C20: every alert in the store is either awaiting delivery or has been
\* delivered to exactly one invocation of the dispatcher; an invocation is
\* for an alert in the store and makes one send attempt, none before it has
\* the alert; and every alert created is eventually dispatched.
C20_EveryAlertDispatchedOnce ==
    /\ [](/\ Len(mails) + Len(alertEvents) = Len(alerts)
          /\ \A i \in DOMAIN alerts :
                Cardinality({m \in DOMAIN mails : mails[m].alert = i})
                  + Cardinality({j \in DOMAIN alertEvents : alertEvents[j] = i}) = 1
          /\ \A m \in DOMAIN mails :
                /\ mails[m].alert \in DOMAIN alerts
                /\ mails[m].sends = (IF mails[m].pc = "done" THEN 1 ELSE 0))
    /\ \A i \in 1 .. MaxCalls :
          (i \in DOMAIN alerts)
             ~> (\E m \in DOMAIN mails :
                    /\ mails[m].alert = i
                    /\ mails[m].sends = 1
                    /\ mails[m].outcome = "returned")

\* an alert of the monitor and an alert of an endpoint have both been
\* dispatched
C20_Witness ==
    /\ Len(alerts) = 2
    /\ alerts[1].source # alerts[2].source
    /\ \E i \in DOMAIN alerts : alerts[i].source = "monitor"
    /\ \A i \in DOMAIN alerts :
          \E m \in DOMAIN mails : mails[m].alert = i /\ mails[m].sends = 1

\* C21: every alert in the store carries the record id, the target URL, the
\* error, the attempt log, the creation timestamp and resolved = false, and
\* no step changes an alert that is in the store.
C21_AlertsComplete ==
    /\ [](\A i \in DOMAIN alerts :
            /\ {"eventId", "eventUrl", "error", "attempts", "timestamp",
                 "resolved"} \subseteq alerts[i].fields
            /\ alerts[i].resolved = FALSE)
    /\ [][\A i \in DOMAIN alerts : alerts'[i] = alerts[i]]_vars

\* C24: the sweep update of a record that has both previews, the record
\* having been regenerated, starts no pipeline run.
C24_ResweepStartsNoRun ==
    [][(/\ delivery
        /\ Head(events).origin = "sweep"
        /\ hasUrl(Head(events).before.vid)
        /\ hasUrl(Head(events).before.img)) => runs' = runs]_vars

\* a step of a run that ends one transcode and goes on to the next stage
transcoded(r) ==
    /\ r \in DOMAIN runs
    /\ \/ runs[r].pc = "clip" /\ runs'[r].pc = "thumb"
       \/ runs[r].pc = "thumb" /\ runs'[r].pc = "upvid"

\* C27: a run goes on to the stage after a transcode only when the binary
\* was started and exited with status 0, and a run whose transcode did not
\* end so has failed.
C27_SuccessIffExitZero ==
    [][\A r \in DOMAIN runs :
          /\ transcoded(r) => (ffmpeg = "exec" /\ runs'[r].exit = "zero")
          /\ (/\ runs[r].pc \in {"clip", "thumb"}
              /\ runs'[r] # runs[r]
              /\ ~transcoded(r)) => runs'[r].outcome \in {"rejected", "timeout"}]_vars

\* C28: a run is sent to download the binary exactly when it finds the file
\* absent, and never a second time; the file changes only by the download
\* or the chmod of a run; and once the file is there it never is absent
\* again, so no run that starts later downloads.
C28_DownloadOnlyWhenAbsent ==
    [][/\ \A r \in DOMAIN runs' :
            r \notin DOMAIN runs =>
              (runs'[r].pc = "fetch" <=> ffmpeg = "absent")
       /\ \A r \in DOMAIN runs :
            runs'[r].pc = "fetch" => runs[r].pc = "fetch"
       /\ ffmpeg # "absent" => ffmpeg' # "absent"
       /\ ffmpeg' # ffmpeg =>
            \E r \in DOMAIN runs :
               /\ runs[r].pc \in {"fetch", "chmod"}
               /\ runs'[r] # runs[r]]_vars

\* the first run downloaded the binary and published; a second run has
\* started with the binary in place
C28_Witness ==
    /\ Len(runs) >= 2
    /\ runs[1].outcome = "published"
    /\ runs[2].pc \notin {"fetch", "chmod"}
    /\ ffmpeg = "exec"

\* C29: a run executes the binary only when its file is completely
\* downloaded and marked executable.
C29_ExecOnlyWhenReady ==
    [][\A r \in DOMAIN runs :
          (runs[r].pc \in {"clip", "thumb"} /\ runs'[r] # runs[r]
             /\ runs'[r].outcome # "timeout") => ffmpeg = "exec"]_vars

\* C30: a request to the endpoint testEventUrl with an id is answered after
\* exactly one fetch and no wait with status 200 and the id, the URL, the
\* result of the attempt and a timestamp; a request without id is answered
\* 400 without any fetch; and no request creates an alert.
C30_ManualTestOnce ==
    /\ [][probe' # probe =>
            /\ probe'.pc = "responded"
            /\ alerts' = alerts
            /\ alertEvents' = alertEvents
            /\ probe'.waited = 0
            /\ IF probe.hasId
               THEN /\ probe'.fetches = 1
                    /\ probe'.status = 200
                    /\ probe'.body = {"eventId", "eventUrl", "result", "timestamp"}
                    /\ probe'.result = testEventUrl(probe.resp)
               ELSE /\ probe'.fetches = 0
                    /\ probe'.status = 400
                    /\ probe'.result = probe.result]_vars
    /\ [](probe.pc = "responded" => alerts = <<>>)

\* a request with an id whose attempt failed was answered and the store has
\* no alert
C30_Witness ==
    /\ probe.pc = "responded"
    /\ probe.hasId
    /\ probe.fetches = 1
    /\ ~probe.result.success
    /\ probe.status = 200
    /\ alerts = <<>>

\* the b-th slice of 100 of a list
sliceOf(list, b) ==
    SubSeq(list, 100 * (b - 1) + 1, IF 100 * b <= Len(list) THEN 100 * b ELSE Len(list))

\* the number of slices of 100 of a list: ceil(N / 100)
slicesOf(list) == (Len(list) + 99) \div 100

\* the number of commits that contain a record
commitsWith(j) ==
    Cardinality({b \in DOMAIN cli.commits : \E k \in DOMAIN cli.commits[b] :
                                                cli.commits[b][k] = j})

\* C22 as claimed: a completed sweep over N matching records has issued
\* ceil(N/100) commits, the b-th commit covering the b-th slice of 100 of the
\* list, so that every matching record is in exactly one commit.
C22_CommitPerSlice ==
    cli.ending = "complete" =>
        /\ Len(cli.commits) = slicesOf(cli.snapshot)
        /\ \A b \in DOMAIN cli.commits :
              cli.commits[b] = sliceOf(cli.snapshot, b)
        /\ \A k \in DOMAIN cli.snapshot : commitsWith(cli.snapshot[k]) = 1

\* C22 as amended: a completed sweep over N matching records has walked
\* ceil(N/100) slices of 100 in list order and committed, for every slice
\* that has a record with a non-empty source video, one batch with exactly
\* those records of the slice, in the order of the slices; every matching
\* record with a non-empty source video is in exactly one commit, every
\* other record in none; with no empty source video these are ceil(N/100)
\* commits that cover the slices.
C22_CommitPerSliceWithVideo ==
    cli.ending = "complete" =>
        LET withVideo(j) == coll[j].video # ""
            part(b) == SelectSeq(sliceOf(cli.snapshot, b), withVideo)
            kept(b) == part(b) # <<>>
            order == SelectSeq([b \in 1 .. slicesOf(cli.snapshot) |-> b], kept)
        IN /\ cli.i = 100 * slicesOf(cli.snapshot)
           /\ Len(cli.commits) = Len(order)
           /\ \A q \in DOMAIN order : cli.commits[q] = part(order[q])
           /\ \A k \in DOMAIN cli.snapshot :
                 commitsWith(cli.snapshot[k]) =
                    (IF withVideo(cli.snapshot[k]) THEN 1 ELSE 0)
           /\ (\A k \in DOMAIN cli.snapshot : withVideo(cli.snapshot[k])) =>
                 /\ Len(cli.commits) = slicesOf(cli.snapshot)
                 /\ \A b \in DOMAIN cli.commits :
                       cli.commits[b] = sliceOf(cli.snapshot, b)

\* a sweep over 250 records with videos has committed 100, 100 and 50
C22_Witness ==
    /\ cli.ending = "complete"
    /\ Len(cli.snapshot) = 250
    /\ Len(cli.commits) = 3
    /\ Len(cli.commits[1]) = 100
    /\ Len(cli.commits[2]) = 100
    /\ Len(cli.commits[3]) = 50

\* the record has the update of the sweep
swept(d) == d.marker >= 1 /\ d.vid = NoUrl /\ d.img = NoUrl

\* the record is as it was before the sweep
unswept(d) == d.marker = 0 /\ d.vid # NoUrl /\ d.img # NoUrl

\* C23: the step in which a commit fails changes no record, no step changes
\* a record that has the update of the sweep, and after the failure of the
\* commit of slice k every record is either updated or as it was before,
\* those of the slices before k with a source video updated, those of
\* slice k and later as before.
C23_FailedBatchAtomic ==
    /\ [][/\ (cli.failedAt = 0 /\ cli'.failedAt # 0) => coll' = coll
          /\ \A j \in DOMAIN coll : swept(coll[j]) => coll'[j] = coll[j]]_vars
    /\ [](cli.failedAt # 0 =>
            \A k \in DOMAIN cli.snapshot :
               LET d == coll[cli.snapshot[k]]
                   b == ((k - 1) \div 100) + 1
               IN IF b < cli.failedAt /\ d.video # ""
                  THEN swept(d)
                  ELSE unswept(d))

\* the commit of the second slice failed: the first hundred is updated, the
\* rest is as before
C23_Witness ==
    /\ cli.failedAt = 2
    /\ Len(cli.snapshot) = 250
    /\ swept(coll[cli.snapshot[100]])
    /\ unswept(coll[cli.snapshot[101]])
    /\ unswept(coll[cli.snapshot[250]])

updatedRecords == {j \in DOMAIN coll : ~unswept(coll[j])}

\* C25: in test mode at most 10 records are updated; in full mode with more
\* than 50 matching records a record is updated only after the answer
\* 'yes'; and after a cancelled sweep no record is updated.
C25_ConfirmedOrSmall ==
    /\ (cli.pc # "start" /\ cli.args.test) => Cardinality(updatedRecords) <= 10
    /\ (/\ ~cli.args.test
        /\ Len(cli.snapshot) > 50
        /\ updatedRecords # {}) => cli.answer \in {"yes", "YES"}
    /\ cli.ending = "cancelled" => updatedRecords = {}

\* a full sweep over 51 records was answered 'no' and changed nothing
C25_Witness ==
    /\ cli.ending = "cancelled"
    /\ ~cli.args.test
    /\ Len(cli.snapshot) = 51
    /\ cli.answer = "no"
    /\ updatedRecords = {}

\* C26: the command exits with code 0 when the sweep completes and when help
\* is displayed; with a --days value that is not a number, is zero or
\* negative, or is missing, it exits with code 1 and has not queried or
\* updated anything.
C26_ExitCodes ==
    /\ cli.ending \in {"complete", "help"} => cli.exitCode = 0
    /\ (cli.pc # "start" /\ cli.args.days \in {"abc", "0", "-5", "novalue"}) =>
          /\ cli.pc = "exited"
          /\ cli.exitCode = 1
          /\ ~cli.queried
          /\ updatedRecords = {}

\* the alerts that call k of testEventUrlWithAlert has stored
manualAlertsOf(k) ==
    {a \in DOMAIN alerts : alerts[a].source = "manual-test" /\ alerts[a].by = k}

\* C31: a call of testEventUrlWithAlert asks for the creation of one alert
\* when its attempt fails and of none when it passes, stores at most one
\* alert, responds exactly once (also when the add throws), and responds
\* alertCreated = true exactly when the attempt failed and the alert is
\* stored.
C31_ManualAlertOnFailure ==
    \A k \in DOMAIN calls :
       calls[k].endpoint = "testEventUrlWithAlert" =>
          LET call == calls[k]
              mine == Cardinality(manualAlertsOf(k))
          IN /\ call.responses = (IF call.pc = "done" THEN 1 ELSE 0)
             /\ mine <= call.adds
             /\ call.adds <= 1
             /\ call.pc = "fetch" => call.adds = 0
             /\ call.pc = "store" => call.adds = 0 /\ ~call.result.success
             /\ (call.pc = "done" /\ call.status = 400) =>
                   call.adds = 0 /\ ~call.alertCreated
             /\ (call.pc = "done" /\ call.status = 200) =>
                   /\ call.adds = (IF call.result.success THEN 0 ELSE 1)
                   /\ call.alertCreated <=> (~call.result.success /\ mine = 1)

\* a call whose attempt failed and whose add threw has responded
\* alertCreated: false, and another call has stored its alert
C31_Witness ==
    \E k, l \in DOMAIN calls :
       /\ calls[k].endpoint = "testEventUrlWithAlert"
       /\ calls[k].pc = "done"
       /\ ~calls[k].result.success
       /\ calls[k].adds = 1
       /\ manualAlertsOf(k) = {}
       /\ ~calls[k].alertCreated
       /\ calls[k].responses = 1
       /\ calls[l].endpoint = "testEventUrlWithAlert"
       /\ calls[l].alertCreated
       /\ Cardinality(manualAlertsOf(l)) = 1

\* the stage a run is at after the stage pc has completed
stageAfter(pc) ==
    CASE pc = "download" -> "clip"
      [] pc = "clip"     -> "thumb"
      [] pc = "thumb"    -> "upvid"
      [] pc = "upvid"    -> "upimg"
      [] pc = "upimg"    -> "update"
      [] OTHER           -> "done"

\* C32: a run reaches the clip transcode only from the downloads and with
\* both files downloaded, the thumbnail transcode only from a completed clip
\* transcode, the clip upload only from a completed thumbnail transcode, the
\* image upload only from a completed clip upload, the record update only
\* from a completed image upload; the two downloads complete in either
\* order; the clip object is written only by a run at the clip upload, the
\* image object only by a run at the image upload, and a record is published
\* only by a run at the update.
C32_StagesInOrder ==
    [][\A r \in DOMAIN runs :
          LET a == runs[r]
              b == runs'[r]
          IN /\ (active(b) /\ b.pc # a.pc /\ stageRank(b.pc) >= 5) =>
                   /\ stageRank(a.pc) >= 4
                   /\ b.pc = stageAfter(a.pc)
                   /\ a.pc = "download" => b.dl = Files
                   /\ a.pc \in {"clip", "thumb"} => b.exit # "nonzero"
             /\ (active(a) /\ stageRank(a.pc) >= 5) => a.dl = Files
             /\ blobAt(vidDest(a.id))' # blobAt(vidDest(a.id)) =>
                   \E q \in DOMAIN runs : at(q, "upvid") /\ runs'[q].pc = "upimg"
             /\ blobAt(imgDest(a.id))' # blobAt(imgDest(a.id)) =>
                   \E q \in DOMAIN runs : at(q, "upimg") /\ runs'[q].pc = "update"
             /\ (b.outcome = "published" /\ a.outcome # "published") =>
                   a.pc = "update"]_vars

\* a run is at the record update with both files downloaded and with its
\* clip and its image in the bucket
C32_Witness ==
    \E r \in DOMAIN runs :
       /\ at(r, "update")
       /\ runs[r].dl = Files
       /\ blobAt(vidDest(runs[r].id)).token = runs[r].vidToken
       /\ blobAt(imgDest(runs[r].id)).token = runs[r].imgToken

\* the record and the two objects of an id
assetsOf(id) == <<docs[id], blobAt(vidDest(id)), blobAt(imgDest(id))>>

\* what a run for the record id leaves when it runs alone and ends with the
\* given outcome: the created record and objects made from its own video,
\* and after the publish the URLs of these two objects on the record
aloneResult(id, outcome) ==
    LET clip == blobAt(vidDest(id))
        image == blobAt(imgDest(id))
    IN /\ clip \in {NoBlob, [token |-> clip.token, src |-> Created(id).video]}
       /\ image \in {NoBlob, [token |-> image.token, src |-> Created(id).video]}
       /\ image # NoBlob => clip # NoBlob
       /\ IF outcome = "published"
          THEN /\ clip # NoBlob /\ image # NoBlob
               /\ docs[id] = [Created(id) EXCEPT
                                !.vid = previewUrl(vidDest(id), clip.token),
                                !.img = previewUrl(imgDest(id), image.token)]
          ELSE docs[id] = Created(id)

\* C33: a step of a run changes neither the record nor an object of another
\* record id, the runs of two different records use different working
\* directories, and when the run of a record has ended the record and its
\* objects are what this run leaves when it runs alone, however the steps
\* of the run of the other record were interleaved.
C33_RunsOfOtherRecordsApart ==
    /\ [][\A id \in DOMAIN docs :
            assetsOf(id)' # assetsOf(id) =>
               \E r \in DOMAIN runs : /\ runs[r].id = id
                                       /\ active(runs[r])
                                       /\ runs'[r] # runs[r]]_vars
    /\ [](\A r \in DOMAIN runs :
            /\ \A q \in DOMAIN runs : q # r => runs[q].id # runs[r].id
            /\ ~active(runs[r]) => aloneResult(runs[r].id, runs[r].outcome))

\* the runs of the two records have both published, each its own objects
C33_Witness ==
    /\ Len(runs) = 2
    /\ runs[1].id # runs[2].id
    /\ \A r \in DOMAIN runs :
          /\ runs[r].outcome = "published"
          /\ blobAt(vidDest(runs[r].id)).src = PairVideo(runs[r].id)
          /\ docs[runs[r].id].vid.dest = vidDest(runs[r].id)

\* C34: the argument list of the clip step is, element by element,
\* -ss 0 -t 2.5 -i <source> -i <overlay> -t 2.5 -r 10 -filter_complex <graph>
\* -c:v <codec> -preset veryfast -crf 28 -pix_fmt yuv420p -an -y <output>,
\* and that of the thumbnail step is -i <clipOutput> -frames:v 1 -q:v 4 -y
\* <output> with the output of the clip step of the same run as clipOutput.
C34_TranscodeArguments ==
    [][\A r \in DOMAIN runs :
          LET a == runs[r]
              b == runs'[r]
          IN /\ (a.pc = "clip" /\ b.pc = "thumb") =>
                  /\ Len(b.argv) = 25
                  /\ LET source == b.argv[6]
                         overlay == b.argv[8]
                         graph == b.argv[14]
                         codec == b.argv[16]
                         output == b.argv[25]
                     IN /\ b.argv = <<"-ss", "0", "-t", "2.5", "-i", source,
                                      "-i", overlay, "-t", "2.5", "-r", "10",
                                      "-filter_complex", graph, "-c:v", codec,
                                      "-preset", "veryfast", "-crf", "28",
                                      "-pix_fmt", "yuv420p", "-an", "-y", output>>
                        /\ source = "prev-" \o a.id \o "/src.mp4"
                        /\ overlay = "prev-" \o a.id \o "/logo.png"
                        /\ output \notin {source, overlay}
             /\ (a.pc = "thumb" /\ b.pc = "upvid") =>
                  /\ Len(a.argv) = 25
                  /\ Len(b.argv) = 8
                  /\ b.argv = <<"-i", a.argv[25], "-frames:v", "1",
                                "-q:v", "4", "-y", b.argv[8]>>
                  /\ b.argv[8] # a.argv[25]]_vars

\* a run has executed the thumbnail step on the output of its clip step
C34_Witness ==
    \E r \in DOMAIN runs :
       /\ at(r, "upvid")
       /\ Len(runs[r].argv) = 8
       /\ runs[r].argv[2] = "prev-" \o runs[r].id \o "/output.mp4"

\* C35: a crawler that asks for an event page is answered 200 with the
\* pre-rendered head block, with the preview image or else the default image
\* and with the video block only when the record has a preview clip, and
\* this also when the lookup finds no record or an error occurs.
C35_CrawlerAlwaysMarkup ==
    (meta.pc = "done" /\ meta.bot /\ meta.hasKey) =>
        /\ meta.status = 200
        /\ meta.body = "markup"
        /\ meta.head.image \in {"preview", "default"}

\* the lookup loop has ended
lookedUp == meta.pc \in {"fallback", "upstream", "done"} /\ meta.results # <<>>

\* C40: a request issues at most 3 queries, none after a query that found
\* the record, waits 500 ms after an empty query that is not the third and
\* at no other time, serves the not-found fallback only after 3 empty
\* queries, and every request is answered.
C40_LookupBounded ==
    /\ [](/\ Len(meta.results) <= 3
          /\ \A k \in DOMAIN meta.results :
                k < Len(meta.results) => meta.results[k] = "empty"
          /\ meta.attempts =
                Cardinality({k \in DOMAIN meta.results : meta.results[k] = "empty"})
          /\ meta.waited = 500 * meta.waits
          /\ meta.pc = "query" => meta.waits = Len(meta.results)
          /\ meta.pc = "wait" => meta.waits = Len(meta.results) - 1
          /\ lookedUp => meta.waits = Len(meta.results) - 1
          /\ (meta.pc = "fallback" \/ meta.body = "shell") =>
                meta.results = <<"empty", "empty", "empty">>)
    /\ (meta.pc = "start") ~> (meta.pc = "done" /\ meta.responses = 1)

\* the third query found the record after two empty ones and two waits
C40_Witness ==
    /\ meta.pc = "done"
    /\ meta.results = <<"empty", "empty", "found">>
    /\ meta.waited = 1000
    /\ meta.status = 200

\* C36: when the run started for the source video v1 and the run started
\* for its replacement v2 have both published and nothing is pending, the
\* clip and the image stored for the record are made from v2, the record's
\* source video.
C36_NewerSourceWins ==
    \A id \in Ids :
       (/\ quiescent
        /\ docs[id].exists
        /\ docs[id].video = "v2"
        /\ \E r1, r2 \in DOMAIN runs :
              /\ r1 < r2
              /\ runs[r1].id = id /\ runs[r2].id = id
              /\ runs[r1].video = "v1" /\ runs[r2].video = "v2"
              /\ runs[r1].outcome = "published"
              /\ runs[r2].outcome = "published")
         => /\ blobAt(vidDest(id)).src = docs[id].video
            /\ blobAt(imgDest(id)).src = docs[id].video

\* C37: after the commit of slice k has failed the process has exited, the
\* loop stands at slice k, no commit was issued after the failed one, the
\* records of slice k and of the later slices have their preview fields, and
\* no further step changes the process or a record.
C37_FailureStopsSweep ==
    /\ [](cli.failedAt # 0 =>
            /\ cli.pc = "exited"
            /\ cli.ending = "error"
            /\ cli.i = 100 * (cli.failedAt - 1)
            /\ Len(cli.commits) <= cli.failedAt - 1
            /\ \A k \in DOMAIN cli.snapshot :
                  k > 100 * (cli.failedAt - 1) =>
                     /\ coll[cli.snapshot[k]].vid # NoUrl
                     /\ coll[cli.snapshot[k]].img # NoUrl)
    /\ [][cli.failedAt # 0 => (cli' = cli /\ coll' = coll)]_vars

\* the commit of the second of three slices failed: one commit was issued,
\* the process has exited and the third slice has its previews
C37_Witness ==
    /\ cli.failedAt = 2
    /\ cli.pc = "exited"
    /\ Len(cli.snapshot) = 250
    /\ Len(cli.commits) = 1
    /\ cli.i = 100
    /\ coll[cli.snapshot[201]].vid # NoUrl

\* C38: the attempt log of a check has at most 3 entries, numbered 1, 2, ...
\* in order, one per fetch; every entry but the last records a failure; the
\* check returns success exactly when the last entry records a success, with
\* the number of that entry as successAttempt, and returns failure only
\* after three entries.
C38_AttemptLogShape ==
    \A c \in DOMAIN checks :
       LET log == checks[c].attempts
           k == Len(log)
       IN /\ k <= 3
          /\ k = checks[c].fetches
          /\ \A j \in 1 .. k : log[j].attempt = j
          /\ \A j \in 1 .. k : j < k => ~log[j].success
          /\ checks[c].result = "success" <=> (k >= 1 /\ log[k].success)
          /\ checks[c].result = "success" => checks[c].attempt = k
          /\ checks[c].result = "failure" => k = 3
          /\ (checks[c].result = "none" /\ checks[c].eventID) =>
                checks[c].attempt = k + 1

\* a check has returned success with a log of two failures and a success
C38_Witness ==
    \E c \in DOMAIN checks :
       /\ checks[c].result = "success"
       /\ Len(checks[c].attempts) = 3
       /\ checks[c].attempts[3].attempt = 3
       /\ ~checks[c].attempts[2].success
       /\ checks[c].attempts[3].success

\* C39: a check of a created record without the field eventID has returned
\* without a wait, without a fetch, without an entry in the attempt log and
\* without asking for an alert, and no alert in the store comes from it.
C39_NoIdNoCheck ==
    \A c \in DOMAIN checks :
       ~checks[c].eventID =>
          /\ checks[c].pc = "done"
          /\ checks[c].outcome = "returned"
          /\ checks[c].waited = 0
          /\ checks[c].fetches = 0
          /\ checks[c].attempts = <<>>
          /\ checks[c].adds = 0
          /\ \A a \in DOMAIN alerts :
                alerts[a].source = "monitor" => alerts[a].by # c

\* a record without eventID and a record with eventID were created: the
\* check of the first did nothing, the check of the second stored an alert
C39_Witness ==
    \E c, d \in DOMAIN checks :
       /\ ~checks[c].eventID
       /\ checks[c].outcome = "returned"
       /\ checks[c].fetches = 0
       /\ checks[d].eventID
       /\ \E a \in DOMAIN alerts :
             alerts[a].source = "monitor" /\ alerts[a].by = d

====
